---------------------------- MODULE Spec2Model ----------------------------
(***************************************************************************)
(* Ironsight dashboard backend: UDP burst ingest (udp_listener.py), the    *)
(* bounded queue, the dispatch loop and the HTTP/WebSocket handlers        *)
(* (app.py), the scoreboard (state.py), the scorer (scoring.py) and the    *)
(* session manager (session_manager.py).                                   *)
(*                                                                         *)
(* Number representation (the code uses floats):                           *)
(*   energies, peaks      integers, raw sensor units                       *)
(*   ratios (dom, top2)   thousandths                                      *)
(*   entropy              1e-5 units                                       *)
(*   sx, sy               ten-thousandths, in -10000..10000                *)
(*   x, y, r, ring radii  hundredths of a centimetre                       *)
(*   time                 clock ticks of 0.05 s                            *)
(*   EMA baseline         hundredths of an energy unit                     *)
(* Divisions round toward zero.                                            *)
(***************************************************************************)
EXTENDS Integers, Sequences, FiniteSets, TLC

\* ------------------------------------------------------------------ bounds
MaxBursts == 3      \* datagrams the sensor node sends in one run
MaxTime == 21       \* last clock tick of a run
MaxSessions == 1    \* sessions started in one run

\* --------------------------------------------------------- small utilities
Abs(v) == IF v < 0 THEN -v ELSE v

Min2(a, b) == IF a <= b THEN a ELSE b

Max2(a, b) == IF a >= b THEN a ELSE b

\* a / b rounded toward zero (b > 0)
QuoT(a, b) == IF a >= 0 THEN a \div b ELSE -((-a) \div b)

RECURSIVE SumSeq(_)
SumSeq(s) == IF s = <<>> THEN 0 ELSE Head(s) + SumSeq(Tail(s))

RECURSIVE MaxSeq(_)
MaxSeq(s) == IF Len(s) = 1 THEN s[1] ELSE Max2(Head(s), MaxSeq(Tail(s)))

RECURSIVE MinSeq(_)
MinSeq(s) == IF Len(s) = 1 THEN s[1] ELSE Min2(Head(s), MinSeq(Tail(s)))

\* insertion of v into the ascending sequence s
RECURSIVE InsertAsc(_, _)
InsertAsc(v, s) ==
    IF s = <<>> THEN <<v>>
    ELSE IF v <= Head(s) THEN <<v>> \o s
    ELSE <<Head(s)>> \o InsertAsc(v, Tail(s))

\* Python's sorted(): ascending
RECURSIVE SortAsc(_)
SortAsc(s) == IF s = <<>> THEN <<>> ELSE InsertAsc(Head(s), SortAsc(Tail(s)))

\* floor of the square root, by bisection on lo..hi
RECURSIVE IsqrtIn(_, _, _)
IsqrtIn(n, lo, hi) ==
    IF lo >= hi THEN lo
    ELSE LET mid == (lo + hi + 1) \div 2
         IN IF mid * mid <= n THEN IsqrtIn(n, mid, hi) ELSE IsqrtIn(n, lo, mid - 1)

Isqrt(n) == IsqrtIn(n, 0, 46340)

\* math.hypot on hundredths of a centimetre
Hypot(x, y) == Isqrt(x * x + y * y)


\* a * b / c rounded toward zero for a >= 0, 0 <= b, 0 < c, where a * b
\* may exceed the integer range but q * b and (a % c) * b do not
MulDiv(a, b, c) == (a \div c) * b + ((a % c) * b) \div c

\* natural logarithm of m/100000 for 50000 < m <= 100000, in 1e-5 units:
\* 2*atanh(z) with z = (m - 100000)/(m + 100000), five terms of the series
LnMantissa(m) ==
    LET d  == m + 100000
        q  == QuoT((m - 100000) * 20000, d)
        r  == (m - 100000) * 20000 - q * d
        z  == 5 * q + QuoT(5 * r, d)
        z2 == (z * z) \div 100000
        z3 == QuoT(z * z2, 100000)
        z5 == QuoT(z3 * z2, 100000)
        z7 == QuoT(z5 * z2, 100000)
        z9 == QuoT(z7 * z2, 100000)
    IN 2 * (z + QuoT(z3, 3) + QuoT(z5, 5) + QuoT(z7, 7) + QuoT(z9, 9))

\* math.log of p/100000 for p in 1..100000, in 1e-5 units (ln 2 = 0.69315)
RECURSIVE Ln5(_)
Ln5(p) == IF p > 50000 THEN LnMantissa(p) ELSE Ln5(2 * p) - 69315

\* -p * log(p) for p in 1..100000 (1e-5 units), in 1e-5 units; the product
\* is taken in two parts to stay within the integer range
EntropyTerm(p) ==
    LET l == -Ln5(p)
    IN ((p \div 1000) * l) \div 100 + ((p % 1000) * l) \div 100000

\* ------------------------------------------------- configuration (config.py)
ScoreKeys == 1..10

\* RINGS_CM as shipped; a ring table is a function on a subset of
\* {"X"} \cup 1..10, modelled as a record: x is the "X" radius (Absent when the
\* key is missing), keys the integer keys present, r their radii
Absent == 0 - 1

RINGS_CM_DEFAULT ==
    [x |-> 200, keys |-> ScoreKeys,
     r |-> [s \in ScoreKeys |-> (11 - s) * 400]]

ARROWS_PER_END == 3

MAX_ENDS == 10

\* sensor geometry (udp_listener.py): HALF_SPAN = D_CM / 2 = 63 cm
HALF_SPAN == 6300

\* channel index -> compass point; channel "0".."3" is index 1..4
CH2COMP == <<"N", "W", "S", "E">>

\* -------------------------------------------- UDPProtocol.__init__ constants
cooldown_s == 7                 \* 0.35 s

min_energy == 25

min_max_energy == 12

min_dom_ratio == 350            \* 0.35

score_thresh_shooting == 10

score_thresh_calibration == 13

score_sumE2_1 == 500

score_sumE2_2 == 1000

score_sumE2_3 == 5000

score_peak_1 == 350

score_peak_2 == 500

score_peak_3 == 700

score_dom_1 == 450              \* 0.45

score_dom_2 == 600              \* 0.60

score_peak_over == 25

score_entropy_max == 1000       \* 1.00

score_top2_ratio == 750         \* 0.75

score_delta_1 == 1000

score_delta_2 == 10000

ema_alpha == 5                  \* 0.05, in hundredths

QUEUE_MAXSIZE == 200

\* --------------------------------------------------------------- datagrams
\* One channel entry of a hit_bundle: energy2, energy, peak (Absent when the
\* field is missing from the JSON object)
Chan(e2, pk) == [energy2 |-> e2, energy |-> Absent, peak |-> pk]

\* v.get("energy2", v.get("energy", v.get("peak", 0.0)))
ChanEnergy(c) ==
    IF c.energy2 # Absent THEN c.energy2
    ELSE IF c.energy # Absent THEN c.energy
    ELSE IF c.peak # Absent THEN c.peak
    ELSE 0

\* raw_ch.get(str(i), {}).get("peak", 0.0)
ChanPeak(c) == IF c.peak # Absent THEN c.peak ELSE 0

\* extract_compass_peaks: compass point -> energy of the channel mapped to it
extract_compass_peaks(msg) ==
    [c \in {"N", "E", "W", "S"} |->
        LET i == CHOOSE j \in 1..4 : CH2COMP[j] = c
        IN ChanEnergy(msg.ch[i])]

\* The per-burst features of datagram_received (lines 455-492)
Features(msg) ==
    LET ch_energy == [i \in 1..4 |-> ChanEnergy(msg.ch[i])]
        ch_peak   == [i \in 1..4 |-> ChanPeak(msg.ch[i])]
        max_peak  == MaxSeq(ch_peak)
        max_energy == MaxSeq(ch_energy)
        sum_energy == SumSeq(ch_energy)
        peaks_sorted == SortAsc(ch_peak)
        es == SortAsc(ch_energy)
        ps == [i \in 1..4 |-> IF sum_energy > 0
                               THEN MulDiv(100000, Max2(ch_energy[i], 0), sum_energy)
                               ELSE 0]
    IN [max_peak   |-> max_peak,
        max_energy |-> max_energy,
        sum_energy |-> sum_energy,
        dom_ratio  |-> IF sum_energy > 0 THEN (max_energy * 1000) \div sum_energy ELSE 0,
        peak_over  |-> max_peak - peaks_sorted[3],
        entropy    |-> IF sum_energy > 0
                       THEN SumSeq([i \in 1..4 |->
                               IF ps[i] = 0 THEN 0
                               ELSE EntropyTerm(ps[i])])
                       ELSE 0,
        top2_ratio |-> IF sum_energy > 0
                       THEN ((es[4] + es[3]) * 1000) \div sum_energy ELSE 0]

\* The weighted rubric of datagram_received (lines 577-628)
RubricScore(f, energy, delta) ==
      (IF energy >= score_sumE2_1 THEN 2 ELSE 0)
    + (IF energy >= score_sumE2_2 THEN 3 ELSE 0)
    + (IF energy >= score_sumE2_3 THEN 3 ELSE 0)
    + (IF f.max_peak >= score_peak_1 THEN 2 ELSE 0)
    + (IF f.max_peak >= score_peak_2 THEN 3 ELSE 0)
    + (IF f.max_peak >= score_peak_3 THEN 2 ELSE 0)
    + (IF f.dom_ratio >= score_dom_1 THEN 2 ELSE 0)
    + (IF f.dom_ratio >= score_dom_2 THEN 3 ELSE 0)
    + (IF f.peak_over >= score_peak_over THEN 2 ELSE 0)
    + (IF f.entropy <= score_entropy_max * 100 THEN 2 ELSE 0)
    + (IF f.top2_ratio >= score_top2_ratio THEN 2 ELSE 0)
    + (IF delta >= score_delta_1 THEN 2 ELSE 0)
    + (IF delta >= score_delta_2 THEN 3 ELSE 0)

\* (variant of the first hard reject with an inclusive bound)
BelowMinEnergy_le(energy) == energy <= min_energy

\* the first hard reject (line 541): energy < self.min_energy
BelowMinEnergy(energy) == energy < min_energy

\* thresh = score_thresh_calibration if is_cal else score_thresh_shooting
ScoreThresh(is_cal) ==
    IF is_cal THEN score_thresh_calibration ELSE score_thresh_shooting

\* (variant of the decision without the dominance gate)
ScoreDecision_nodom(f, energy, delta, is_cal) ==
    LET score  == RubricScore(f, energy, delta)
        has_impact == energy >= 300 \/ f.max_peak >= 300 \/ f.peak_over >= 10
    IN IF BelowMinEnergy(energy)
         THEN [label |-> "GHOST", reason |-> "energy", score |-> 0]
       ELSE IF f.max_energy < min_max_energy
         THEN [label |-> "GHOST", reason |-> "maxE", score |-> 0]
       ELSE IF energy < 200 /\ f.max_peak < 300 /\ f.peak_over < 10
         THEN [label |-> "GHOST", reason |-> "too_small", score |-> 0]
       ELSE IF ~has_impact
         THEN [label |-> "GHOST", reason |-> "no_impact", score |-> 0]
       ELSE IF f.max_peak < 320 /\ energy < 2000
         THEN [label |-> "GHOST", reason |-> "weak_signal", score |-> 0]
       ELSE IF is_cal /\ energy < 5000
         THEN [label |-> "GHOST", reason |-> "cal_low_energy", score |-> 0]
       ELSE IF is_cal /\ ~(f.max_peak >= 320 \/ energy >= 300)
         THEN [label |-> "GHOST", reason |-> "cal_requires", score |-> 0]
       ELSE IF score < ScoreThresh(is_cal)
         THEN [label |-> "GHOST", reason |-> "score", score |-> score]
       ELSE [label |-> "HIT", reason |-> "score", score |-> score]

\* The hard rejects, the impulse/size gates, the calibration gates and the
\* weighted-score decision of datagram_received (lines 537-628): label,
\* reason tag and rubric score (0 when a gate rejects before the rubric).
\* energy is the compass sum, delta = energy - ema_prev.
ScoreDecision(f, energy, delta, is_cal) ==
    LET score  == RubricScore(f, energy, delta)
        has_impact == energy >= 300 \/ f.max_peak >= 300 \/ f.peak_over >= 10
    IN IF BelowMinEnergy(energy)
         THEN [label |-> "GHOST", reason |-> "energy", score |-> 0]
       ELSE IF f.max_energy < min_max_energy
         THEN [label |-> "GHOST", reason |-> "maxE", score |-> 0]
       ELSE IF f.dom_ratio < min_dom_ratio /\ energy < 10000
         THEN [label |-> "GHOST", reason |-> "dom", score |-> 0]
       ELSE IF energy < 200 /\ f.max_peak < 300 /\ f.peak_over < 10
         THEN [label |-> "GHOST", reason |-> "too_small", score |-> 0]
       ELSE IF ~has_impact
         THEN [label |-> "GHOST", reason |-> "no_impact", score |-> 0]
       ELSE IF f.max_peak < 320 /\ energy < 2000
         THEN [label |-> "GHOST", reason |-> "weak_signal", score |-> 0]
       ELSE IF is_cal /\ energy < 5000
         THEN [label |-> "GHOST", reason |-> "cal_low_energy", score |-> 0]
       ELSE IF is_cal /\ ~(f.max_peak >= 320 \/ energy >= 300)
         THEN [label |-> "GHOST", reason |-> "cal_requires", score |-> 0]
       ELSE IF score < ScoreThresh(is_cal)
         THEN [label |-> "GHOST", reason |-> "score", score |-> score]
       ELSE [label |-> "HIT", reason |-> "score", score |-> score]

\* (variant of the low-energy override that never overrides)
low_energy_override_off(c, energy, is_cal) == c

\* the low-energy override of lines 630-633, applied to the decision c
low_energy_override(c, energy, is_cal) ==
    IF c.label = "HIT" /\ energy < score_sumE2_3 /\ c.score < ScoreThresh(is_cal) + 5
    THEN [c EXCEPT !.label = "GHOST", !.reason = "low_energy_override"]
    ELSE c

\* (variant of the classification without the dominance gate and without the
\* low-energy override)
Classify_noveto(f, energy, delta, is_cal) ==
    ScoreDecision_nodom(f, energy, delta, is_cal)

\* The classification of datagram_received (lines 537-657): the decision,
\* then the low-energy override
Classify(f, energy, delta, is_cal) ==
    low_energy_override(ScoreDecision(f, energy, delta, is_cal), energy, is_cal)

\* ------------------------------------------------------------ localization
Clamp1(v) == Max2(-10000, Min2(10000, v))

\* _blend_to_zero (lines 716-723): frac and floor in thousandths
blend_to_zero(v, frac, floor) ==
    IF frac <= 0 THEN 0
    ELSE IF frac >= floor THEN Clamp1(v)
    ELSE Clamp1(QuoT(v * Isqrt((frac * 1000000) \div floor), 1000))

\* the deadzone of lines 729-733 (0.03)
Deadzone(v) == IF Abs(v) < 300 THEN 0 ELSE v

\* the energy estimate (sx_energy, sy_energy) of lines 697-733
EnergyEstimate(comp) ==
    LET pN == comp["N"]
        pE == comp["E"]
        pW == comp["W"]
        pS == comp["S"]
        totalE == pN + pE + pW + pS
        sx_raw == IF pE + pW = 0 THEN 0 ELSE QuoT((pE - pW) * 10000, pE + pW)
        sy_raw == IF pN + pS = 0 THEN 0 ELSE QuoT((pN - pS) * 10000, pN + pS)
        x_frac == IF totalE = 0 THEN 0 ELSE ((pE + pW) * 1000) \div totalE
        y_frac == IF totalE = 0 THEN 0 ELSE ((pN + pS) * 1000) \div totalE
    IN [sx |-> Deadzone(blend_to_zero(sx_raw, x_frac, 100)),
        sy |-> Deadzone(blend_to_zero(sy_raw, y_frac, 100))]

\* compute_energy_confidence, in thousandths
compute_energy_confidence(comp, dom_ratio) ==
    LET total  == comp["N"] + comp["E"] + comp["W"] + comp["S"]
        x_axis == comp["E"] + comp["W"]
        y_axis == comp["N"] + comp["S"]
        hi     == Max2(x_axis, y_axis)
        axis_balance == IF hi = 0 THEN 0 ELSE (Min2(x_axis, y_axis) * 1000) \div hi
        confidence == 300 + (4 * dom_ratio) \div 10 + (3 * axis_balance) \div 10
    IN IF total < 50 THEN 200 ELSE Min2(1000, Max2(0, confidence))

\* A TDOA map of the datagram: keys is the set of channels present, t their
\* microsecond offsets. NoTdoa is the absent (or empty) map.
NoTdoa == [keys |-> {}, t |-> <<0, 0, 0, 0>>]

TdoaMap(t) == [keys |-> 1..4, t |-> t]

\* (None, None, 0.0): the TDOA estimate is not available
TdoaUnavailable == [ok |-> FALSE, sx |-> 0, sy |-> 0, conf |-> 0]

\* tdoa_localize: (sx, sy, confidence), ok = FALSE for (None, None, 0.0).
\* TARGET_DIAMETER_CM = 126, TDOA_WAVE_SPEED = 100 m/s: one microsecond is
\* 1e-4 m, the span 1.26 m, the expected maximal spread 12600 us.
tdoa_localize(tdoa_us) ==
    IF Cardinality(tdoa_us.keys) < 4
    THEN TdoaUnavailable
    ELSE
      LET tc == [c \in {"N", "E", "W", "S"} |->
                    tdoa_us.t[CHOOSE j \in 1..4 : CH2COMP[j] = c]]
          dx == tc["E"] - tc["W"]
          dy == tc["N"] - tc["S"]
          sx == QuoT(-dx * 100, 126)
          sy == QuoT(-dy * 100, 126)
          min_time == MinSeq(tdoa_us.t)
          spread == MaxSeq(tdoa_us.t) - min_time
          n_at_zero == Cardinality({j \in 1..4 : tdoa_us.t[j] = min_time})
          confidence ==
              IF n_at_zero >= 3 THEN 50
              ELSE IF n_at_zero = 2 THEN 150
              ELSE IF spread < 100 THEN 100
              ELSE IF 10 * spread > 15 * 12600 THEN 0
              ELSE IF spread > 12600 THEN 150
              ELSE Min2(700, 300 + (spread * 400) \div 12600)
      IN [ok |-> TRUE, sx |-> Clamp1(sx), sy |-> Clamp1(sy), conf |-> confidence]

\* The arithmetic of fuse_localization is Python float arithmetic (IEEE
\* binary64): every operation rounds its exact result to the nearest value
\* of 53 significant bits, ties to even. The model keeps the format and the
\* rounding rule with FBits significant bits. A float is the integer count
\* of its units of 1/FUnit; values below 2^FBits units are kept to the unit.
FBits == 11

FUnit == 16384

\* the spacing of the representable values around q units
RECURSIVE FGrid(_)
FGrid(q) == IF q < 2^FBits THEN 1 ELSE 2 * FGrid(q \div 2)

\* the float nearest to a / b units (a >= 0, b > 0), ties to even
FlQ(a, b) ==
    LET s == FGrid(a \div b)
        d == b * s
        m == a \div d
        r == a - m * d
    IN IF 2 * r > d \/ (2 * r = d /\ m % 2 = 1) THEN (m + 1) * s ELSE m * s

FlQs(a, b) == IF a < 0 THEN -FlQ(-a, b) ELSE FlQ(a, b)

\* x + y, x * y and x / y in floats
FlAdd(x, y) == FlQs(x + y, 1)

FlMul(x, y) == FlQs(x * y, FUnit)

FlDiv(x, y) == FlQs(x * FUnit, y)

\* a confidence in thousandths, and a feature in ten-thousandths, as floats
FromMilli(c) == FlQ(c * FUnit, 1000)

FromSx(v) == FlQs(v * FUnit, 10000)

\* a float as a feature in ten-thousandths
ToSx(x) == QuoT(x * 10000, FUnit)

\* w_energy * a + w_tdoa * b of lines 172-173 and 185-186
WeightedSum(w_energy, a, w_tdoa, b) ==
    ToSx(FlAdd(FlMul(w_energy, FromSx(a)), FlMul(w_tdoa, FromSx(b))))

\* (variant of fuse_localization whose moderate-disagreement branch includes
\* a disagreement of exactly 0.5)
fuse_localization_le(e, energy_conf, t) ==
    IF ~t.ok THEN [sx |-> e.sx, sy |-> e.sy, method |-> "energy_only"]
    ELSE
      LET tdoa_conf_eff == t.conf \div 2
          dx == Abs(e.sx - t.sx)
          dy == Abs(e.sy - t.sy)
          disagreement == Isqrt(dx * dx + dy * dy)
          total_conf == energy_conf + tdoa_conf_eff
          fe == FromMilli(energy_conf)
          ft == FlMul(FromMilli(t.conf), FUnit \div 2)
          ftotal == FlAdd(fe, ft)
          w_energy == FlDiv(fe, ftotal)
          w_tdoa == FlDiv(ft, ftotal)
          penalty == FromMilli(1000 - (disagreement - 2000) \div 10)
          pe == FlMul(w_energy, penalty)
          pt == FlMul(w_tdoa, penalty)
          total == FlAdd(pe, pt)
          w_energy2 == IF total > 0 THEN FlDiv(pe, total) ELSE pe
          w_tdoa2 == IF total > 0 THEN FlDiv(pt, total) ELSE pt
      IN IF total_conf < 100
           THEN [sx |-> QuoT(e.sx + t.sx, 2), sy |-> QuoT(e.sy + t.sy, 2),
                 method |-> "low_conf_avg"]
         ELSE IF disagreement < 2000
           THEN [sx |-> WeightedSum(w_energy, e.sx, w_tdoa, t.sx),
                 sy |-> WeightedSum(w_energy, e.sy, w_tdoa, t.sy),
                 method |-> "agree_fuse"]
         ELSE IF disagreement <= 5000
           THEN [sx |-> WeightedSum(w_energy2, e.sx, w_tdoa2, t.sx),
                 sy |-> WeightedSum(w_energy2, e.sy, w_tdoa2, t.sy),
                 method |-> "disagree_fuse"]
         ELSE [sx |-> e.sx, sy |-> e.sy, method |-> "high_disagree_energy"]

\* fuse_localization: e the energy estimate, t the result of tdoa_localize
\* (t.ok = FALSE when sx_tdoa is None), confidences in thousandths. The
\* tests compare decimal thresholds; the weights are floats.
fuse_localization(e, energy_conf, t) ==
    IF ~t.ok THEN [sx |-> e.sx, sy |-> e.sy, method |-> "energy_only"]
    ELSE
      LET tdoa_conf_eff == t.conf \div 2
          dx == Abs(e.sx - t.sx)
          dy == Abs(e.sy - t.sy)
          disagreement == Isqrt(dx * dx + dy * dy)
          total_conf == energy_conf + tdoa_conf_eff
          fe == FromMilli(energy_conf)
          ft == FlMul(FromMilli(t.conf), FUnit \div 2)
          ftotal == FlAdd(fe, ft)
          w_energy == FlDiv(fe, ftotal)
          w_tdoa == FlDiv(ft, ftotal)
          penalty == FromMilli(1000 - (disagreement - 2000) \div 10)
          pe == FlMul(w_energy, penalty)
          pt == FlMul(w_tdoa, penalty)
          total == FlAdd(pe, pt)
          w_energy2 == IF total > 0 THEN FlDiv(pe, total) ELSE pe
          w_tdoa2 == IF total > 0 THEN FlDiv(pt, total) ELSE pt
      IN IF total_conf < 100
           THEN [sx |-> QuoT(e.sx + t.sx, 2), sy |-> QuoT(e.sy + t.sy, 2),
                 method |-> "low_conf_avg"]
         ELSE IF disagreement < 2000
           THEN [sx |-> WeightedSum(w_energy, e.sx, w_tdoa, t.sx),
                 sy |-> WeightedSum(w_energy, e.sy, w_tdoa, t.sy),
                 method |-> "agree_fuse"]
         ELSE IF disagreement < 5000
           THEN [sx |-> WeightedSum(w_energy2, e.sx, w_tdoa2, t.sx),
                 sy |-> WeightedSum(w_energy2, e.sy, w_tdoa2, t.sy),
                 method |-> "disagree_fuse"]
         ELSE [sx |-> e.sx, sy |-> e.sy, method |-> "high_disagree_energy"]

\* The active calibration fit: NoFit is Python's None; otherwise a record
\* [model, x, y] with the per-axis coefficient lists, in hundredths of a cm.
NoFit == [model |-> "none", x |-> <<>>, y |-> <<>>]

\* sum(c[i] * feats[i]); the last feature is the constant 1.0
RECURSIVE Dot(_, _)
Dot(c, feats) ==
    IF Len(c) = 1 THEN c[1]
    ELSE QuoT(Head(c) * Head(feats), 10000) + Dot(Tail(c), Tail(feats))

\* xy_from_features: a fit whose coefficient lists are too short raises
\* inside the try and falls through to the uncalibrated mapping
xy_from_features(sx, sy, fit) ==
    LET feats2 == <<sx, sy, QuoT(sx * sy, 10000), (sx * sx) \div 10000,
                    (sy * sy) \div 10000, 10000>>
        feats1 == <<sx, sy, 10000>>
    IN IF fit.model = "poly2_sxsy" /\ Len(fit.x) >= 6 /\ Len(fit.y) >= 6
         THEN [x |-> Dot(SubSeq(fit.x, 1, 6), feats2),
               y |-> Dot(SubSeq(fit.y, 1, 6), feats2)]
       ELSE IF fit.model = "linear_sxsy" /\ Len(fit.x) >= 3 /\ Len(fit.y) >= 3
         THEN [x |-> Dot(SubSeq(fit.x, 1, 3), feats1),
               y |-> Dot(SubSeq(fit.y, 1, 3), feats1)]
       ELSE [x |-> QuoT(HALF_SPAN * sx, 10000), y |-> QuoT(HALF_SPAN * sy, 10000)]

\* ---------------------------------------------------------------- scoring
\* the scan "for s in range(10, 0, -1)" from s downward: RINGS_CM[s] raises
\* KeyError (err) when the key s is missing
RECURSIVE ScanRings(_, _, _)
\* (variant of the scan with exclusive ring boundaries)
ScanRings_strict(rings, r_cm, s) ==
    IF s = 0 THEN [err |-> FALSE, score |-> 0, is_x |-> FALSE]
    ELSE IF s \notin rings.keys THEN [err |-> TRUE, score |-> 0, is_x |-> FALSE]
    ELSE IF r_cm < rings.r[s] THEN [err |-> FALSE, score |-> s, is_x |-> FALSE]
    ELSE ScanRings(rings, r_cm, s - 1)

ScanRings(rings, r_cm, s) ==
    IF s = 0 THEN [err |-> FALSE, score |-> 0, is_x |-> FALSE]
    ELSE IF s \notin rings.keys THEN [err |-> TRUE, score |-> 0, is_x |-> FALSE]
    ELSE IF r_cm <= rings.r[s] THEN [err |-> FALSE, score |-> s, is_x |-> FALSE]
    ELSE ScanRings(rings, r_cm, s - 1)

\* (variant of score_from_r that sets the X flag on every score)
score_from_r_flag(rings, r_cm) ==
    [ScanRings(rings, r_cm, 10) EXCEPT !.is_x = TRUE]

\* score_from_r against the ring table rings (the module-level RINGS_CM)
score_from_r(rings, r_cm) ==
    IF rings.x # Absent /\ r_cm <= rings.x
    THEN [err |-> FALSE, score |-> 10, is_x |-> TRUE]
    ELSE ScanRings(rings, r_cm, 10)

\* ------------------------------------------------------ SessionState (state.py)
\* session_id 0 is Python's None (database ids start at 1)
NewSessionState(sid, ape, n) ==
    [ends |-> <<>>, session_id |-> sid, arrows_per_end |-> ape, num_ends |-> n]

\* (variant of SessionState.add_shot that opens a new end whenever the last
\* one is full)
add_shot_grow(st, shot) ==
    LET e1 == IF st.ends = <<>> THEN << <<>> >> ELSE st.ends
        e2 == IF Len(e1[Len(e1)]) >= st.arrows_per_end THEN Append(e1, <<>>) ELSE e1
    IN [st EXCEPT !.ends = [e2 EXCEPT ![Len(e2)] = Append(e2[Len(e2)], shot)]]

\* SessionState.add_shot
add_shot(st, shot) ==
    LET e1 == IF st.ends = <<>> THEN << <<>> >> ELSE st.ends
        e2 == IF Len(e1[Len(e1)]) >= st.arrows_per_end
              THEN IF Len(e1) < st.num_ends
                   THEN Append(e1, <<>>)
                   ELSE [e1 EXCEPT ![Len(e1)] = <<>>]
              ELSE e1
    IN [st EXCEPT !.ends = [e2 EXCEPT ![Len(e2)] = Append(e2[Len(e2)], shot)]]

RECURSIVE SumScores(_)
SumScores(end) == IF end = <<>> THEN 0 ELSE Head(end).score + SumScores(Tail(end))

\* SessionState.get_total_score
RECURSIVE get_total_score(_)
get_total_score(ends) ==
    IF ends = <<>> THEN 0 ELSE SumScores(Head(ends)) + get_total_score(Tail(ends))

\* SessionState.get_total_arrows
RECURSIVE get_total_arrows(_)
get_total_arrows(ends) ==
    IF ends = <<>> THEN 0 ELSE Len(Head(ends)) + get_total_arrows(Tail(ends))

\* SessionState.is_complete
is_complete(st) == get_total_arrows(st.ends) >= st.arrows_per_end * st.num_ends

\* SessionState.to_payload: the running total over the ends, the arrow count
\* and the completion flag of the table projection
to_payload(st) ==
    [total |-> get_total_score(st.ends),
     total_arrows |-> get_total_arrows(st.ends),
     is_complete |-> is_complete(st)]

\* ------------------------------------------------------------ environment
\* The datagrams the sensor node may send. Channel order: "0".."3", mapped to
\* N, W, S, E by CH2COMP.
Malformed == [type |-> "malformed"]

WrongType == [type |-> "status"]

Bundle(n, w, s, e, pk) ==
    [type |-> "hit_bundle",
     ch |-> <<Chan(n, pk), Chan(w, pk), Chan(s, pk), Chan(e, pk)>>,
     peak_tdoa_us |-> NoTdoa, tdoa_us |-> NoTdoa]

BCentre == Bundle(3000, 3000, 3000, 3000, 800)   \* r = 0

BTen == Bundle(1000, 5900, 1000, 6700, 800)      \* r just inside the 10 ring

BMiss == Bundle(1000, 1000, 1000, 9000, 800)     \* r = 50.4 cm, outside ring 1

BGhost == Bundle(5, 5, 5, 5, 10)                 \* sum energy 20 < MIN_ENERGY

\* the ring tables POST /api/config/rings is called with: the shipped table,
\* one without the "X" key, and one that lacks the keys 5..1
RingsNoX == [RINGS_CM_DEFAULT EXCEPT !.x = Absent]

RingsPartial == [RINGS_CM_DEFAULT EXCEPT !.keys = 6..10]

RingTables == {RINGS_CM_DEFAULT, RingsNoX, RingsPartial}

\* the (arrows_per_end, num_ends) pairs POST /api/session/start is called with
SessionShapes == {<<1, 2>>}

\* WebSocket connections
WS == {"w1", "w2"}

\* ------------------------------------------------------------------- state
VARIABLES
    now,                      \* time.time()
    next_seq,                 \* the sensor node's sequence counter
    last_accept_ts,           \* UDPProtocol._last_accept_ts
    energy_ema,               \* UDPProtocol._energy_ema
    queue,                    \* app.queue, asyncio.Queue(maxsize=200)
    mode,                     \* app._mode
    RINGS_CM,                 \* config.RINGS_CM
    calibration,              \* app.calibration
    calibration_fit,          \* app.calibration_fit
    calibration_fit_version,  \* app.calibration_fit_version
    fit_file,                 \* the files at CAL_FIT_PATH and CAL_FIT_PATH + ".tmp"
    apply,                    \* the worker threads serving cal_apply and cal_confirm: position and locals
    cal_response,             \* history: the last response of confirm, compute or apply
    clients,                  \* app.clients
    sock,                     \* each WebSocket: connection state and what it received
    state,                    \* app.state, the scoreboard
    session_manager,          \* app.session_manager
    db,                       \* the sqlite database
    disp,                     \* the dispatch_loop task: its position and locals
    accepted,                 \* history: the HITs that passed the cooldown, in order
    recorded,                 \* history: seq of the events recorded as shots, in order
    last_rx,                  \* history: what datagram_received did with the last datagram
    drop_counter,             \* the queue-overflow counter of the protocol object
    probe                     \* input and result of a pure function under check

vars == <<now, next_seq, last_accept_ts, energy_ema, queue, mode, RINGS_CM,
          calibration, calibration_fit, calibration_fit_version, fit_file, apply, cal_response, clients, sock,
          state, session_manager, db, disp, accepted, recorded, last_rx,
          drop_counter, probe>>

\* groups for UNCHANGED
ingestVars == <<last_accept_ts, energy_ema, accepted, last_rx, drop_counter>>

calVars == <<calibration, calibration_fit, calibration_fit_version, fit_file, apply,
            cal_response>>

sessVars == <<session_manager, db>>

NoPending == [set |-> FALSE]

\* a path that names no file
NoFile == [exists |-> FALSE]

\* the worker threads of the threadpool that the requests of the plain def
\* endpoints (cal_apply, cal_confirm) run on
ApplyThreads == {"t1", "t2"}

\* a worker thread that is serving no request
ApplyIdle == [pc |-> "idle"]

NoResponse == [op |-> "none"]

NoSession == [set |-> FALSE]

\* the dispatch loop waiting in queue.get()
DispIdle == [pc |-> "get"]

DispCrashed == [pc |-> "crashed"]

NoProbe == [fn |-> "none"]

InitProgram ==
    /\ now = cooldown_s
    /\ next_seq = 1
    /\ last_accept_ts = 0
    /\ energy_ema = 0
    /\ queue = <<>>
    /\ mode = "shooting"
    /\ RINGS_CM = RINGS_CM_DEFAULT
    /\ calibration = [active |-> FALSE, paused |-> FALSE, pending |-> NoPending,
                      samples |-> <<>>, fit |-> NoFit]
    /\ calibration_fit = NoFit
    /\ calibration_fit_version = 0
    /\ fit_file = [canon |-> NoFile, tmp |-> NoFile]
    /\ apply = [t \in ApplyThreads |-> ApplyIdle]
    /\ cal_response = NoResponse
    /\ clients = {}
    /\ sock = [w \in WS |-> [conn |-> "new", inbox |-> <<>>]]
    /\ state = NewSessionState(0, ARROWS_PER_END, MAX_ENDS)
    /\ session_manager = [state |-> NoSession, active_session_id |-> 0]
    /\ db = [sessions |-> <<>>, shots |-> <<>>]
    /\ disp = DispIdle
    /\ accepted = <<>>
    /\ recorded = <<>>
    /\ last_rx = [seq |-> 0, hit |-> FALSE, outcome |-> "none", dt |-> 0,
                  energy |-> 0, delta |-> 0]
    /\ drop_counter = 0

Init == InitProgram /\ probe = NoProbe

\* ---------------------------------------------------------------- the clock
Tick(d, tmax) ==
    /\ now + d <= tmax
    /\ now' = now + d
    /\ UNCHANGED <<next_seq, last_accept_ts, energy_ema, queue, mode, RINGS_CM,
                   calibration, calibration_fit, calibration_fit_version, fit_file, apply, cal_response, clients,
                   sock, state, session_manager, db, disp, accepted, recorded,
                   last_rx, drop_counter, probe>>

\* ------------------------------------------- UDPProtocol.datagram_received
\* app.startup passes no cal_getter to udp_loop: is_cal is always False
is_cal == FALSE

\* the EMA baseline after a burst of compass energy `energy` (lines 522-532)
EmaSeeded(energy) == IF energy_ema = 0 THEN energy * 100 ELSE energy_ema

\* (variant of line 531 that seeds the baseline and never moves it)
EmaNext_seed_only(energy) ==
    EmaSeeded(energy)

EmaNext(energy) ==
    ((100 - ema_alpha) * EmaSeeded(energy) + ema_alpha * energy * 100) \div 100

\* the TDOA estimate of lines 739-750: peak_tdoa_us when it is not empty,
\* else tdoa_us; localized when the map has four entries
TdoaEstimate(msg) ==
    LET tmap == IF msg.peak_tdoa_us.keys # {} THEN msg.peak_tdoa_us ELSE msg.tdoa_us
    IN IF tmap.keys # {} /\ Cardinality(tmap.keys) >= 4
       THEN tdoa_localize(tmap)
       ELSE TdoaUnavailable

\* the fused features of lines 764-770
FusedFeatures(msg, f, comp) ==
    fuse_localization(EnergyEstimate(comp),
                      compute_energy_confidence(comp, f.dom_ratio),
                      TdoaEstimate(msg))

\* the event dict of lines 796-804
EventDict(seq, fu, xy) ==
    [seq |-> seq, sx |-> fu.sx, sy |-> fu.sy, x |-> xy.x, y |-> xy.y,
     r |-> Hypot(xy.x, xy.y)]

\* x, y = xy_from_features(sx, sy, fit) of lines 790-791
EventAt(seq, fu) ==
    EventDict(seq, fu, xy_from_features(fu.sx, fu.sy, calibration_fit))

\* the event built at lines 697-804 for an accepted burst
EventOf(msg, seq, f, comp) == EventAt(seq, FusedFeatures(msg, f, comp))

\* queue.put_nowait(event): a full queue raises QueueFull, which is passed over
PutNowait(q, event) == IF Len(q) < QUEUE_MAXSIZE THEN Append(q, event) ELSE q

\* (variant of the cooldown test with an inclusive bound)
InCooldown_le(dt) == dt <= cooldown_s

\* the cooldown test of line 686
InCooldown(dt) == dt < cooldown_s

\* (variant of line 692 that stamps the accept only when the queue has room)
AcceptStamp_if_room(q) ==
    IF Len(q) < QUEUE_MAXSIZE THEN now ELSE last_accept_ts

\* line 692: self._last_accept_ts = now, before the event is built and
\* whatever the queue q holds
AcceptStamp(q) ==
    now

DatagramReceived(msg, limit) ==
    /\ next_seq <= limit
    /\ next_seq' = next_seq + 1
    /\ UNCHANGED <<probe, now, mode, RINGS_CM, calVars, clients, sock, state,
                   sessVars, disp, recorded, drop_counter>>
    /\ IF msg.type # "hit_bundle"
       THEN /\ last_rx' = [seq |-> next_seq, hit |-> FALSE,
                           outcome |-> "not_a_bundle", dt |-> 0,
                           energy |-> 0, delta |-> 0]
            /\ UNCHANGED <<last_accept_ts, energy_ema, queue, accepted>>
       ELSE
         LET f      == Features(msg)
             comp   == extract_compass_peaks(msg)
             energy == comp["N"] + comp["E"] + comp["W"] + comp["S"]
             delta  == QuoT(energy * 100 - EmaSeeded(energy), 100)
             c      == Classify(f, energy, delta, is_cal)
             mode_s == mode
             dt     == now - last_accept_ts
             rx(o)  == [seq |-> next_seq, hit |-> c.label = "HIT",
                        outcome |-> o, dt |-> dt, energy |-> energy, delta |-> delta]
         IN /\ energy_ema' = EmaNext(energy)
            /\ IF c.label # "HIT"
               THEN /\ last_rx' = rx("ghost")
                    /\ UNCHANGED <<last_accept_ts, queue, accepted>>
               ELSE IF mode_s \notin {"shooting", "scoring"} /\ ~is_cal
               THEN /\ last_rx' = rx("mode")
                    /\ UNCHANGED <<last_accept_ts, queue, accepted>>
               ELSE IF InCooldown(dt)
               THEN /\ last_rx' = rx("cooldown")
                    /\ UNCHANGED <<last_accept_ts, queue, accepted>>
               ELSE /\ last_accept_ts' = AcceptStamp(queue)
                    /\ queue' = PutNowait(queue, EventOf(msg, next_seq, f, comp))
                    /\ last_rx' = rx(IF Len(queue) < QUEUE_MAXSIZE
                                     THEN "queued" ELSE "queue_full")
                    /\ accepted' = Append(accepted,
                           [seq |-> next_seq, ts |-> now, mode |-> mode_s,
                            energy |-> energy, score |-> c.score])

\* ------------------------------------------------------------ dispatch_loop
has_active_session ==
    session_manager.state # NoSession /\ session_manager.active_session_id # 0

\* the fan-out "for ws in list(clients)": the snapshot is taken here; with no
\* client the loop body never awaits and the iteration ends at once
StartBroadcast(payload) ==
    IF clients = {}
    THEN disp' = DispIdle
    ELSE disp' = [pc |-> "send", payload |-> payload, snap |-> clients,
                  todo |-> clients, dead |-> {}]

\* the "shot" payload of lines 257-267, built from the scoreboard st. The
\* score is "X" or the integer, written here as its decimal text; seq tags the
\* payload with the burst it came from (the JSON carries the shot's ts)
ShotPayload(seq, shot, st) ==
    [type |-> "shot", seq |-> seq,
     score |-> IF shot.is_x THEN "X" ELSE ToString(shot.score),
     table |-> to_payload(st)]

\* (variant of queue.get() that takes the newest event)
QueueGet_lifo(q) == [evt |-> q[Len(q)], rest |-> SubSeq(q, 1, Len(q) - 1)]

\* queue.get(): the oldest event and the rest of the queue
QueueGet(q) == [evt |-> Head(q), rest |-> Tail(q)]

\* evt = await queue.get(), then the synchronous code up to the next
\* suspension: the calibration test (line 183), or scoring, the scoreboard
\* update and the call of session_manager.add_shot up to its first await
DispatchGet ==
    /\ disp.pc = "get"
    /\ queue # <<>>
    /\ LET evt == QueueGet(queue).evt
       IN /\ queue' = QueueGet(queue).rest
          /\ IF calibration.active
             THEN /\ disp' = [pc |-> "cal_paused", evt |-> evt]
                  /\ UNCHANGED <<state, session_manager, recorded>>
             ELSE
               LET sc == score_from_r(RINGS_CM, evt.r)
                   shot == [ts |-> now, x |-> evt.x, y |-> evt.y, r |-> evt.r,
                            score |-> sc.score, is_x |-> sc.is_x]
               IN IF sc.err
                  THEN /\ disp' = DispCrashed
                       /\ UNCHANGED <<state, session_manager, recorded>>
                  ELSE
                    /\ state' = add_shot(state, shot)
                    /\ recorded' = Append(recorded, evt.seq)
                    /\ IF has_active_session
                       THEN LET st2 == add_shot(session_manager.state, shot)
                                total_arrows == get_total_arrows(st2.ends)
                            IN /\ session_manager' =
                                      [session_manager EXCEPT !.state = st2]
                               /\ disp' = [pc |-> "screenshot", evt |-> evt,
                                           shot |-> shot, session_id |-> 0,
                                           end_number |->
                                             ((total_arrows - 1) \div st2.arrows_per_end) + 1,
                                           shot_number |->
                                             ((total_arrows - 1) % st2.arrows_per_end) + 1]
                       ELSE /\ StartBroadcast(ShotPayload(evt.seq, shot, state'))
                            /\ UNCHANGED session_manager
    /\ UNCHANGED <<probe, now, next_seq, ingestVars, mode, RINGS_CM, calVars, clients,
                   sock, db>>

\* line 187: if calibration.get("paused"): pending = None; continue
DispatchCalPaused ==
    /\ disp.pc = "cal_paused"
    /\ IF calibration.paused
       THEN /\ calibration' = [calibration EXCEPT !.pending = NoPending]
            /\ disp' = DispIdle
       ELSE /\ disp' = [disp EXCEPT !.pc = "cal_pending"]
            /\ UNCHANGED calibration
    /\ UNCHANGED <<probe, now, next_seq, ingestVars, queue, mode, RINGS_CM,
                   calibration_fit, calibration_fit_version, fit_file, apply, cal_response, clients, sock, state,
                   sessVars, recorded>>

\* the pending record of lines 194-213
PendingOf(evt, ts) ==
    [set |-> TRUE, ts |-> ts, seq |-> evt.seq, sx |-> evt.sx, sy |-> evt.sy,
     x |-> evt.x, y |-> evt.y, r |-> evt.r]

\* (variant of line 191 that stores the burst whether or not one is pending)
DispatchCalPending_replace ==
    /\ disp.pc = "cal_pending"
    /\ calibration' = [calibration EXCEPT !.pending = PendingOf(disp.evt, now)]
    /\ StartBroadcast([type |-> "cal_pending", seq |-> disp.evt.seq,
                       count |-> Len(calibration.samples)])
    /\ UNCHANGED <<probe, now, next_seq, ingestVars, queue, mode, RINGS_CM,
                   calibration_fit, calibration_fit_version, fit_file, apply, cal_response, clients, sock, state,
                   sessVars, recorded>>

\* line 191: a burst is stored as pending only when none is pending; the
\* cal_pending payload is then fanned out
DispatchCalPending ==
    /\ disp.pc = "cal_pending"
    /\ IF calibration.pending = NoPending
       THEN LET pending == PendingOf(disp.evt, now)
            IN /\ calibration' = [calibration EXCEPT !.pending = pending]
               /\ StartBroadcast([type |-> "cal_pending", seq |-> disp.evt.seq,
                                  count |-> Len(calibration.samples)])
       ELSE /\ disp' = DispIdle
            /\ UNCHANGED calibration
    /\ UNCHANGED <<probe, now, next_seq, ingestVars, queue, mode, RINGS_CM,
                   calibration_fit, calibration_fit_version, fit_file, apply, cal_response, clients, sock, state,
                   sessVars, recorded>>

\* SessionManager.add_shot resumes after the screenshot (lines 84-94; a failed
\* capture is caught) and calls database.save_shot with the session id it
\* reads now
DispatchScreenshot ==
    /\ disp.pc = "screenshot"
    /\ disp' = [disp EXCEPT !.pc = "save_shot",
                            !.session_id = session_manager.active_session_id]
    /\ UNCHANGED <<probe, now, next_seq, ingestVars, queue, mode, RINGS_CM, calVars,
                   clients, sock, state, sessVars, recorded>>

\* database.save_shot (which may raise: session_id NULL, disk error), then
\* "if self.state.is_complete()" (AttributeError when the session was ended
\* meanwhile); an exception leaves dispatch_loop, which has no handler
DispatchSaveShot(db_ok) ==
    /\ disp.pc = "save_shot"
    /\ IF ~db_ok \/ disp.session_id = 0
       THEN /\ disp' = DispCrashed
            /\ UNCHANGED db
       ELSE /\ db' = [db EXCEPT !.shots = Append(@,
                         [session_id |-> disp.session_id, seq |-> disp.evt.seq,
                          end_number |-> disp.end_number,
                          shot_number |-> disp.shot_number,
                          score |-> disp.shot.score, is_x |-> disp.shot.is_x])]
            /\ IF session_manager.state = NoSession
               THEN disp' = DispCrashed
               ELSE IF is_complete(session_manager.state) /\ has_active_session
               THEN disp' = [disp EXCEPT !.pc = "complete",
                                !.session_id = session_manager.active_session_id]
               ELSE StartBroadcast(ShotPayload(disp.evt.seq, disp.shot, state))
    /\ UNCHANGED <<probe, now, next_seq, ingestVars, queue, mode, RINGS_CM, calVars,
                   clients, sock, state, session_manager, recorded>>

\* database.complete_session inside complete_and_save, then
\* self.state.end_time = end_time
DispatchComplete(db_ok) ==
    /\ disp.pc = "complete"
    /\ IF ~db_ok
       THEN /\ disp' = DispCrashed
            /\ UNCHANGED db
       ELSE /\ db' = [db EXCEPT !.sessions =
                         [i \in DOMAIN @ |->
                            IF i = disp.session_id
                            THEN [@[i] EXCEPT !.is_complete = TRUE]
                            ELSE @[i]]]
            /\ IF session_manager.state = NoSession
               THEN disp' = DispCrashed
               ELSE StartBroadcast(ShotPayload(disp.evt.seq, disp.shot, state))
    /\ UNCHANGED <<probe, now, next_seq, ingestVars, queue, mode, RINGS_CM, calVars,
                   clients, sock, state, session_manager, recorded>>

\* (variant of the fan-out in which a failed send ends the iteration)
DispatchSend_abort(w) ==
    /\ disp.pc = "send"
    /\ w \in disp.todo
    /\ LET ok   == sock[w].conn = "open"
           todo == disp.todo \ {w}
       IN /\ sock' = IF ok
                     THEN [sock EXCEPT ![w].inbox = Append(@, disp.payload)]
                     ELSE sock
          /\ IF todo = {} \/ ~ok
             THEN /\ clients' = clients \ disp.dead
                  /\ disp' = DispIdle
             ELSE /\ disp' = [disp EXCEPT !.todo = todo]
                  /\ UNCHANGED clients
    /\ UNCHANGED <<probe, now, next_seq, ingestVars, queue, mode, RINGS_CM, calVars,
                   state, sessVars, recorded>>

\* await ws.send_json(payload) for the next socket of the snapshot: a socket
\* that is no longer open raises and is put on the dead list; after the last
\* send the dead sockets are discarded and the loop goes back to queue.get()
DispatchSend(w) ==
    /\ disp.pc = "send"
    /\ w \in disp.todo
    /\ LET ok   == sock[w].conn = "open"
           dead == IF ok THEN disp.dead ELSE disp.dead \cup {w}
           todo == disp.todo \ {w}
       IN /\ sock' = IF ok
                     THEN [sock EXCEPT ![w].inbox = Append(@, disp.payload)]
                     ELSE sock
          /\ IF todo = {}
             THEN /\ clients' = clients \ dead
                  /\ disp' = DispIdle
             ELSE /\ disp' = [disp EXCEPT !.todo = todo, !.dead = dead]
                  /\ UNCHANGED clients
    /\ UNCHANGED <<probe, now, next_seq, ingestVars, queue, mode, RINGS_CM, calVars,
                   state, sessVars, recorded>>

\* ------------------------------------------------------ WebSocket /ws
\* ws_endpoint: accept, clients.add(ws), then the state snapshot built from
\* the scoreboard as it is now
WsConnect(w) ==
    /\ sock[w].conn = "new"
    /\ clients' = clients \cup {w}
    /\ sock' = [sock EXCEPT ![w] =
                   [conn |-> "open",
                    inbox |-> <<[type |-> "state", table |-> to_payload(state)]>>]]
    /\ UNCHANGED <<probe, now, next_seq, ingestVars, queue, mode, RINGS_CM, calVars,
                   state, sessVars, disp, recorded>>

\* the peer goes away (or the connection breaks): every later send raises
WsClose(w) ==
    /\ sock[w].conn = "open"
    /\ sock' = [sock EXCEPT ![w].conn = "closed"]
    /\ UNCHANGED <<probe, now, next_seq, ingestVars, queue, mode, RINGS_CM, calVars,
                   clients, state, sessVars, disp, recorded>>

\* ws_endpoint: receive_text raises WebSocketDisconnect: clients.discard(ws)
WsDisconnect(w) ==
    /\ sock[w].conn = "closed"
    /\ w \in clients
    /\ clients' = clients \ {w}
    /\ UNCHANGED <<probe, now, next_seq, ingestVars, queue, mode, RINGS_CM, calVars,
                   sock, state, sessVars, disp, recorded>>

\* ------------------------------------------------------------ HTTP handlers
\* POST /api/mode -> set_mode: any other mode raises ValueError
api_set_mode(m) ==
    /\ mode' = IF m \in {"shooting", "scoring"} THEN m ELSE mode
    /\ UNCHANGED <<probe, now, next_seq, ingestVars, queue, RINGS_CM, calVars, clients,
                   sock, state, sessVars, disp, recorded>>

\* POST /api/config/rings: RINGS_CM.clear(); RINGS_CM.update(new_rings)
set_rings(new_rings) ==
    /\ RINGS_CM' = new_rings
    /\ UNCHANGED <<probe, now, next_seq, ingestVars, queue, mode, calVars, clients,
                   sock, state, sessVars, disp, recorded>>

\* POST /api/reset: state.ends.clear()
reset_state ==
    /\ state' = [state EXCEPT !.ends = <<>>]
    /\ UNCHANGED <<probe, now, next_seq, ingestVars, queue, mode, RINGS_CM, calVars,
                   clients, sock, sessVars, disp, recorded>>

\* POST /api/session/start -> SessionManager.start_session
start_session(arrows_per_end, num_ends, limit) ==
    /\ Len(db.sessions) < limit
    /\ LET session_id == Len(db.sessions) + 1
       IN /\ db' = [db EXCEPT !.sessions = Append(@,
                       [id |-> session_id, arrows_per_end |-> arrows_per_end,
                        num_ends |-> num_ends, is_complete |-> FALSE])]
          /\ session_manager' =
                 [state |-> NewSessionState(session_id, arrows_per_end, num_ends),
                  active_session_id |-> session_id]
    /\ UNCHANGED <<probe, now, next_seq, ingestVars, queue, mode, RINGS_CM, calVars,
                   clients, sock, state, disp, recorded>>

\* POST /api/session/end -> SessionManager.end_session
end_session ==
    /\ has_active_session
    /\ db' = IF is_complete(session_manager.state)
             THEN db
             ELSE [db EXCEPT !.sessions[session_manager.active_session_id].is_complete
                               = TRUE]
    /\ session_manager' = [state |-> NoSession, active_session_id |-> 0]
    /\ UNCHANGED <<probe, now, next_seq, ingestVars, queue, mode, RINGS_CM, calVars,
                   clients, sock, state, disp, recorded>>

\* ------------------------------------------------------ calibration control
\* (variant of cal_start that also clears the scoreboard)
cal_start_clears ==
    /\ calibration' = [active |-> TRUE, paused |-> FALSE, pending |-> NoPending,
                       samples |-> <<>>, fit |-> NoFit]
    /\ state' = [state EXCEPT !.ends = <<>>]
    /\ UNCHANGED <<probe, now, next_seq, ingestVars, queue, mode, RINGS_CM,
                   calibration_fit, calibration_fit_version, fit_file, apply, cal_response, clients, sock,
                   sessVars, disp, recorded>>

\* POST /api/calibration/start
cal_start ==
    /\ calibration' = [active |-> TRUE, paused |-> FALSE, pending |-> NoPending,
                       samples |-> <<>>, fit |-> NoFit]
    /\ UNCHANGED <<probe, now, next_seq, ingestVars, queue, mode, RINGS_CM,
                   calibration_fit, calibration_fit_version, fit_file, apply, cal_response, clients, sock, state,
                   sessVars, disp, recorded>>

\* POST /api/calibration/pause
cal_pause ==
    /\ calibration' = [calibration EXCEPT !.paused = TRUE, !.pending = NoPending]
    /\ UNCHANGED <<probe, now, next_seq, ingestVars, queue, mode, RINGS_CM,
                   calibration_fit, calibration_fit_version, fit_file, apply, cal_response, clients, sock, state,
                   sessVars, disp, recorded>>

\* POST /api/calibration/resume
cal_resume ==
    /\ calibration' = [calibration EXCEPT !.paused = FALSE, !.pending = NoPending]
    /\ UNCHANGED <<probe, now, next_seq, ingestVars, queue, mode, RINGS_CM,
                   calibration_fit, calibration_fit_version, fit_file, apply, cal_response, clients, sock, state,
                   sessVars, disp, recorded>>

\* POST /api/calibration/reset
cal_reset ==
    /\ calibration_fit' = NoFit
    /\ calibration_fit_version' = 0
    /\ fit_file' = [fit_file EXCEPT !.canon = NoFile]
    /\ apply' = [u \in DOMAIN apply |->
                    IF apply[u].pc = "dump" /\ apply[u].fd = "canon"
                    THEN [apply[u] EXCEPT !.fd = "unlinked"] ELSE apply[u]]
    /\ calibration' = [active |-> FALSE, paused |-> FALSE, pending |-> NoPending,
                       samples |-> <<>>, fit |-> NoFit]
    /\ UNCHANGED <<probe, now, next_seq, ingestVars, queue, mode, RINGS_CM, clients,
                   sock, state, sessVars, disp, recorded, cal_response>>

\* ----------------------------------------------------------- specifications
\* the modes POST /api/mode is called with ("paused" is rejected by set_mode)
Modes == {"shooting", "scoring", "paused"}

\* Ingest, dispatch and fan-out to the WebSocket clients, with mode changes:
\* no calibration run, no stored session, the shipped ring table.
Next ==
    \/ Tick(cooldown_s, MaxTime)
    \/ \E msg \in {BCentre, BMiss} : DatagramReceived(msg, MaxBursts)
    \/ DispatchGet
    \/ \E w \in WS : DispatchSend(w)
    \/ \E w \in WS : WsConnect(w)
    \/ \E w \in WS : WsClose(w)
    \/ \E w \in WS : WsDisconnect(w)

Spec == Init /\ [][Next]_vars

\* Arrival-side behaviour on the 0.05 s clock: every datagram kind and mode
\* changes, the dispatcher taking events with no client connected.
NextIngest ==
    \/ Tick(1, 2 * cooldown_s + 1)
    \/ \E msg \in {Malformed, WrongType, BGhost, BCentre} :
          DatagramReceived(msg, MaxBursts)
    \/ \E m \in Modes : api_set_mode(m)
    \/ DispatchGet

SpecIngest == Init /\ [][NextIngest]_vars

\* Mode changes against dispatch and fan-out to one client.
NextMode ==
    \/ Tick(cooldown_s, MaxTime)
    \/ \E msg \in {BCentre, BGhost} : DatagramReceived(msg, MaxBursts)
    \/ \E m \in Modes : api_set_mode(m)
    \/ DispatchGet
    \/ WsConnect("w1")
    \/ DispatchSend("w1")

SpecMode == Init /\ [][NextMode]_vars

\* ------------------------------------------------------------- properties
Range(s) == {s[i] : i \in DOMAIN s}

StrictlyIncreasing(s) == \A i, j \in DOMAIN s : i < j => s[i] < s[j]

IsShot(m) == m.type = "shot"

\* the seq of the shot events a socket received, in the order received
ShotSeqs(inbox) ==
    LET shots == SelectSeq(inbox, IsShot)
    IN [i \in DOMAIN shots |-> shots[i].seq]

\* socket w holds the message payload in the socket map sk
Delivered(sk, w, payload) ==
    \E i \in DOMAIN sk[w].inbox :
        /\ sk[w].inbox[i].type = payload.type
        /\ sk[w].inbox[i] = payload

\* C1: shots are dispatched in the order their bursts were accepted. The
\* shots recorded so far are the first accepted bursts, in accept order; every
\* subscriber receives shot events in that order, and only of shots already
\* recorded; the shot being fanned out is the latest recorded one, so the
\* fan-out of an earlier shot is over before a later one reaches anybody.
C1_DispatchInAcceptOrder ==
    /\ Len(recorded) <= Len(accepted)
    /\ \A i \in DOMAIN recorded : recorded[i] = accepted[i].seq
    /\ \A w \in WS :
         /\ StrictlyIncreasing(ShotSeqs(sock[w].inbox))
         /\ Range(ShotSeqs(sock[w].inbox)) \subseteq Range(recorded)
    /\ (disp.pc = "send" /\ disp.payload.type = "shot") =>
          disp.payload.seq = recorded[Len(recorded)]

\* two accepted bursts were recorded and both reached every subscriber
C1_Witness ==
    /\ Len(recorded) >= 2
    /\ \A w \in WS : Len(ShotSeqs(sock[w].inbox)) >= 2

\* C9: a send that fails for one subscriber does not stop the fan-out. Each
\* send step keeps the dispatcher in the fan-out or returns it to queue.get();
\* an open socket gets the payload; when the fan-out ends, every socket of the
\* snapshot has the payload or is no longer in the client set, and only
\* sockets that did not get it were removed.
C9_FanOutSurvivesFailure ==
    [][(disp.pc = "send" /\ disp' # disp) =>
          /\ disp'.pc \in {"send", "get"}
          /\ \A w \in disp.todo :
                (sock[w].conn = "open" /\ (disp'.pc = "get" \/ w \notin disp'.todo))
                    => Delivered(sock', w, disp.payload)
          /\ disp'.pc = "send" =>
                /\ disp'.payload = disp.payload
                /\ disp'.snap = disp.snap
                /\ disp'.todo \subseteq disp.todo /\ disp'.todo # disp.todo
          /\ disp'.pc = "get" =>
                /\ \A w \in disp.snap :
                      Delivered(sock', w, disp.payload) \/ w \notin clients'
                /\ \A w \in clients \ clients' :
                      ~Delivered(sock', w, disp.payload)
    ]_vars

\* in the middle of a fan-out one send has failed and an open socket of the
\* snapshot is still to be served
C9_Witness ==
    /\ disp.pc = "send"
    /\ disp.dead # {}
    /\ \E w \in disp.todo : sock[w].conn = "open"

\* C2: two consecutively accepted HITs are at least the cooldown apart. A HIT
\* that arrives less than cooldown_s after the last accepted one is dropped, a
\* HIT that arrives exactly cooldown_s (or more) after it is accepted, and the
\* timer is the time of the last accepted HIT whatever the mode did meanwhile.
C2_CooldownBetweenAccepts ==
    /\ \A i \in DOMAIN accepted :
          i > 1 => accepted[i].ts - accepted[i - 1].ts >= cooldown_s
    /\ last_accept_ts = IF accepted = <<>> THEN 0 ELSE accepted[Len(accepted)].ts
    /\ (last_rx.hit /\ last_rx.dt < cooldown_s) =>
          /\ last_rx.outcome = "cooldown"
          /\ \A i \in DOMAIN accepted : accepted[i].seq # last_rx.seq
    /\ (last_rx.hit /\ last_rx.dt >= cooldown_s) =>
          /\ last_rx.outcome \in {"queued", "queue_full"}
          /\ accepted # <<>> /\ accepted[Len(accepted)].seq = last_rx.seq

\* a HIT was accepted exactly cooldown_s after the previous accepted HIT, and
\* the mode was changed between the two
C2_Witness ==
    /\ Len(accepted) >= 2
    /\ accepted[2].ts - accepted[1].ts = cooldown_s
    /\ accepted[2].mode # accepted[1].mode
    /\ last_rx.seq = accepted[2].seq

\* C7: a burst that arrives in Scoring mode is a no-op: it is never recorded
\* as a shot and no shot event for it reaches a client.
C7_ScoringModeIgnoresBursts ==
    \A i \in DOMAIN accepted :
        accepted[i].mode = "scoring" =>
            /\ accepted[i].seq \notin Range(recorded)
            /\ \A w \in WS : accepted[i].seq \notin Range(ShotSeqs(sock[w].inbox))

\* Scoring against replaced ring tables: ingest, dispatch and one client while
\* POST /api/config/rings and POST /api/reset are served.
NextRings ==
    \/ Tick(cooldown_s, MaxTime)
    \/ \E msg \in {BCentre, BTen, BMiss} : DatagramReceived(msg, MaxBursts)
    \/ DispatchGet
    \/ DispatchSend("w1")
    \/ WsConnect("w1")
    \/ \E t \in RingTables : set_rings(t)
    \/ reset_state

SpecRings == Init /\ [][NextRings]_vars

\* The stored session: the dispatcher with the session store (whose writes
\* may raise) and one client, while sessions are started and ended.
NextStore ==
    \/ Tick(cooldown_s, MaxTime)
    \/ DatagramReceived(BCentre, MaxBursts)
    \/ DispatchGet
    \/ DispatchScreenshot
    \/ \E db_ok \in BOOLEAN : DispatchSaveShot(db_ok)
    \/ \E db_ok \in BOOLEAN : DispatchComplete(db_ok)
    \/ DispatchSend("w1")
    \/ WsConnect("w1")
    \/ \E sh \in SessionShapes : start_session(sh[1], sh[2], MaxSessions)
    \/ end_session

SpecStore == Init /\ [][NextStore]_vars

\* A calibration run: the calibration branch of the dispatcher against the
\* start/pause/resume/reset handlers, one client.
NextCal ==
    \/ Tick(cooldown_s, MaxTime)
    \/ \E msg \in {BCentre, BMiss} : DatagramReceived(msg, MaxBursts)
    \/ DispatchGet
    \/ DispatchCalPaused
    \/ DispatchCalPending
    \/ DispatchSend("w1")
    \/ WsConnect("w1")
    \/ cal_start
    \/ cal_pause
    \/ cal_resume
    \/ cal_reset

SpecCal == Init /\ [][NextCal]_vars

\* The queue filled to its capacity: the sensor node fires once per cooldown
\* period while the dispatcher is held up (in a send to a slow client) and
\* takes nothing from the queue.
OverflowBursts == QUEUE_MAXSIZE + 2

NextOverflow ==
    \/ /\ now - last_accept_ts < cooldown_s
       /\ Tick(cooldown_s, cooldown_s * (OverflowBursts + 1))
    \/ /\ now - last_accept_ts >= cooldown_s
       /\ DatagramReceived(BCentre, OverflowBursts)

SpecOverflow == Init /\ [][NextOverflow]_vars

\* A round shot past its last end on the scoreboard of ARROWS_PER_END by
\* MAX_ENDS arrows: one arrow per cooldown period, each one scored and shown
\* to the client before the clock moves on and the next one lands.
RoundShots == ARROWS_PER_END * MAX_ENDS + 2

NextRound ==
    \/ /\ now - last_accept_ts < cooldown_s
       /\ queue = <<>> /\ disp.pc = "get"
       /\ Tick(cooldown_s, cooldown_s * (RoundShots + 1))
    \/ /\ now - last_accept_ts >= cooldown_s
       /\ queue = <<>> /\ disp.pc = "get"
       /\ DatagramReceived(BTen, RoundShots)
    \/ DispatchGet
    \/ DispatchSend("w1")
    \/ WsConnect("w1")

SpecRound == Init /\ [][NextRound]_vars

\* score_from_r as a function: the radii it is probed with are every ring
\* radius of the shipped table, its two neighbours, and a miss
RProbes ==
    UNION {{r - 1, r, r + 1} :
              r \in {RINGS_CM_DEFAULT.r[s] : s \in ScoreKeys} \cup {RINGS_CM_DEFAULT.x}}
      \cup {0, 5040}

\* a table whose 10 ring is wider than its 9 ring, and whose X ring is the
\* 10 ring
RingsUnordered ==
    [RINGS_CM_DEFAULT EXCEPT !.x = 400, !.r = [@ EXCEPT ![10] = 900, ![9] = 700]]

ScoreTables == RingTables \cup {RingsUnordered}

InitScore ==
    /\ InitProgram
    /\ probe \in {[fn |-> "score_from_r", r |-> r, done |-> FALSE,
                   rings |-> RINGS_CM_DEFAULT,
                   out |-> [err |-> FALSE, score |-> 0, is_x |-> FALSE]] :
                  r \in RProbes}

\* one call score_from_r(r) against the ring table of the moment
ApplyScore ==
    /\ probe.fn = "score_from_r"
    /\ ~probe.done
    /\ probe' = [probe EXCEPT !.done = TRUE, !.rings = RINGS_CM,
                              !.out = score_from_r(RINGS_CM, probe.r)]
    /\ UNCHANGED <<now, next_seq, ingestVars, queue, mode, RINGS_CM, calVars,
                   clients, sock, state, sessVars, disp, recorded>>

NextScore ==
    \/ ApplyScore
    \/ \E t \in ScoreTables : set_rings(t)

SpecScore == InitScore /\ [][NextScore]_vars

\* every shot of a scoreboard
AllShots(ends) == UNION {Range(ends[i]) : i \in DOMAIN ends}

\* the texts a shot event carries as its score
ScoreTexts == {"X"} \cup {ToString(s) : s \in 0..10}

ScoreValue(txt) == IF txt = "X" THEN 10 ELSE CHOOSE s \in 0..10 : ToString(s) = txt

\* the score the specification assigns to radius r under the ring table rings
ExpectedScore(rings, r) ==
    IF rings.x # Absent /\ r <= rings.x
    THEN [score |-> 10, is_x |-> TRUE]
    ELSE LET inside == {s \in rings.keys : r <= rings.r[s]}
         IN IF inside = {}
            THEN [score |-> 0, is_x |-> FALSE]
            ELSE [score |-> CHOOSE s \in inside : \A t \in inside : t <= s,
                  is_x |-> FALSE]

\* C3: every shot dispatched has 0 <= score <= 10 and carries the X flag only
\* with score 10, on the scoreboard, in the store and in the shot events; and
\* the score and flag of a shot being recorded are those the ring table of the
\* moment assigns to the r of the event taken from the queue, nothing else.
C3_ScoreRangeAndOrigin ==
    /\ [](/\ \A sh \in AllShots(state.ends) :
                sh.score \in 0..10 /\ (sh.is_x => sh.score = 10)
          /\ \A i \in DOMAIN db.shots :
                db.shots[i].score \in 0..10
                    /\ (db.shots[i].is_x => db.shots[i].score = 10)
          /\ \A w \in WS : \A i \in DOMAIN sock[w].inbox :
                IsShot(sock[w].inbox[i]) => sock[w].inbox[i].score \in ScoreTexts)
    /\ [][recorded' # recorded =>
            LET e  == state'.ends[Len(state'.ends)]
                sh == e[Len(e)]
                ex == ExpectedScore(RINGS_CM, Head(queue).r)
            IN /\ sh.r = Head(queue).r
               /\ sh.score = ex.score
               /\ sh.is_x = ex.is_x]_vars

\* the scoreboard holds an X and a miss, one of them scored after the ring
\* table was replaced, and a client received shot events
C3_Witness ==
    /\ \E sh \in AllShots(state.ends) : sh.is_x /\ sh.score = 10
    /\ \E sh \in AllShots(state.ends) : sh.score = 0
    /\ RINGS_CM # RINGS_CM_DEFAULT
    /\ \E w \in WS : Len(ShotSeqs(sock[w].inbox)) >= 2

\* C4: score_from_r returns (10, X) when r <= radius[X]; otherwise the highest
\* s in 10..1 with r <= radius[s]; otherwise 0. A radius exactly on a ring
\* gets that ring's score or a higher one, and a radius exactly on the X ring
\* gets the X. A table with all of the keys 1..10 never makes the call raise.
C4_ScoreFromR ==
    (probe.fn = "score_from_r" /\ probe.done) =>
        /\ probe.rings.keys = ScoreKeys => ~probe.out.err
        /\ ~probe.out.err =>
              /\ probe.out.score = ExpectedScore(probe.rings, probe.r).score
              /\ probe.out.is_x = ExpectedScore(probe.rings, probe.r).is_x
              /\ \A s \in probe.rings.keys :
                    probe.r = probe.rings.r[s] => probe.out.score >= s
              /\ probe.r = probe.rings.x => probe.out.is_x

\* the call was made with r exactly on the radius of the 9 ring of the shipped
\* table and returned 9
C4_Witness ==
    /\ probe.fn = "score_from_r" /\ probe.done
    /\ probe.rings = RINGS_CM_DEFAULT
    /\ probe.r = probe.rings.r[9]
    /\ probe.out = [err |-> FALSE, score |-> 9, is_x |-> FALSE]

\* the sum of the scores of the shot events of a message sequence
RECURSIVE SumShotScores(_)
SumShotScores(msgs) ==
    IF msgs = <<>> THEN 0
    ELSE (IF IsShot(Head(msgs)) THEN ScoreValue(Head(msgs).score) ELSE 0)
         + SumShotScores(Tail(msgs))

\* C5: the table.total of every shot event a client receives is the total of
\* the snapshot it was given on connecting plus the scores of the shot events
\* it received up to and including this one, however many shots were recorded.
C5_TableTotalIsRunningSum ==
    \A w \in WS : \A i \in DOMAIN sock[w].inbox :
        IsShot(sock[w].inbox[i]) =>
            sock[w].inbox[i].table.total =
                sock[w].inbox[1].table.total
                    + SumShotScores(SubSeq(sock[w].inbox, 2, i))

\* the dispatcher is handling an event it took while calibration was active
InCalibrationBranch ==
    \/ disp.pc = "get" /\ calibration.active
    \/ disp.pc \in {"cal_paused", "cal_pending"}
    \/ disp.pc = "send" /\ disp.payload.type = "cal_pending"

\* C6: a burst dispatched while calibration is active never produces a shot:
\* no step the dispatcher takes for it changes the scoreboard, the session or
\* the store, or sends a shot event. It touches only the pending slot: it
\* fills the slot when the slot is empty, and when a burst is already pending
\* it is discarded and the pending burst stays as it is.
C6_CalibrationBurstsMakeNoShot ==
    [][(disp' # disp /\ InCalibrationBranch) =>
          /\ recorded' = recorded
          /\ state' = state
          /\ session_manager' = session_manager
          /\ db' = db
          /\ \A w \in WS : ShotSeqs(sock'[w].inbox) = ShotSeqs(sock[w].inbox)
          /\ calibration'.active = calibration.active
          /\ calibration'.samples = calibration.samples
          /\ (disp.pc = "cal_pending" /\ calibration.pending.set) =>
                calibration' = calibration /\ disp'.pc = "get"
          /\ (disp.pc = "cal_pending" /\ ~calibration.pending.set) =>
                calibration'.pending.set /\ calibration'.pending.seq = disp.evt.seq
    ]_vars

\* with calibration active and a burst pending, the dispatcher has taken
\* another burst and is about to test the pending slot
C6_Witness ==
    /\ calibration.active /\ ~calibration.paused
    /\ calibration.pending.set
    /\ disp.pc = "cal_pending"
    /\ disp.evt.seq # calibration.pending.seq

\* C8: the queue never holds more than QUEUE_MAXSIZE events; a burst accepted
\* while it is full is dropped at once, leaves the queued events as they are,
\* and increments the drop counter.
C8_OverflowDropsAndCounts ==
    /\ [](Len(queue) <= QUEUE_MAXSIZE)
    /\ [][(next_seq' # next_seq /\ last_rx'.outcome = "queue_full") =>
             /\ queue' = queue
             /\ drop_counter' = drop_counter + 1]_vars

\* C10: the dispatch loop never terminates on an error in the handling of a
\* single burst (a store write that raises, a score lookup that raises).
C10_DispatchLoopNeverStops == disp.pc # "crashed"

\* ------------------------------------------------- unusable datagrams (C11)
\* raw_ch.get(str(i), {}) for a channel key that is missing from "ch": the
\* empty object, every field of which is absent
NoChan == [energy2 |-> Absent, energy |-> Absent, peak |-> Absent]

\* a hit_bundle without the key "0" (N): W, S and E carry a clear impact
BLacking ==
    [type |-> "hit_bundle",
     ch |-> <<NoChan, Chan(1000, 800), Chan(1000, 800), Chan(9000, 800)>>,
     peak_tdoa_us |-> NoTdoa, tdoa_us |-> NoTdoa]

\* The sensor node sends nothing but unusable datagrams: broken JSON, another
\* message type, a bundle that lacks a channel key; a calibration run may be
\* started, one client listens.
NextDrop ==
    \/ Tick(cooldown_s, MaxTime)
    \/ \E msg \in {Malformed, WrongType, BLacking} : DatagramReceived(msg, MaxBursts)
    \/ DispatchGet
    \/ DispatchCalPaused
    \/ DispatchCalPending
    \/ DispatchSend("w1")
    \/ WsConnect("w1")
    \/ cal_start

SpecDrop == Init /\ [][NextDrop]_vars

\* C11: a datagram that is malformed JSON, has another type than
\* "hit_bundle", or lacks one of the channel keys "0".."3" is dropped: when
\* only such datagrams arrive, nothing is ever queued, no burst becomes the
\* calibration pending burst and no shot is recorded or sent.
C11_UnusableDatagramsDropped ==
    /\ queue = <<>>
    /\ accepted = <<>>
    /\ recorded = <<>>
    /\ calibration.pending = NoPending
    /\ \A w \in WS : \A i \in DOMAIN sock[w].inbox : ~IsShot(sock[w].inbox[i])

\* ------------------------------------------- shots and the database (C12)
\* the bursts whose shot is in the shots table (database.save_shot)
StoredSeqs == {db.shots[j].seq : j \in DOMAIN db.shots}

\* C12: every accepted shot that the dispatcher broadcasts to the subscribers
\* is also delivered to the session store (the shots table) at least once:
\* a shot event in a client's inbox has its row in the store.
C12_BroadcastShotsAreStored ==
    \A w \in WS : \A i \in DOMAIN sock[w].inbox :
        IsShot(sock[w].inbox[i]) => sock[w].inbox[i].seq \in StoredSeqs

\* ------------------------------------- bursts during a calibration run (C13)
\* two bursts that the calibration profile (is_cal) rejects: one channel of
\* energy 4000 (rubric 21), and four channels of 2500 with peak 400 (rubric 10)
BCalWeak == Bundle(0, 0, 0, 4000, 800)

BCalFlat == Bundle(2500, 2500, 2500, 2500, 400)

\* A calibration run is started and the sensor node fires only while it is
\* active; one client listens.
NextCalProfile ==
    \/ Tick(cooldown_s, MaxTime)
    \/ /\ calibration.active
       /\ \E msg \in {BCentre, BCalWeak, BCalFlat} : DatagramReceived(msg, MaxBursts)
    \/ DispatchGet
    \/ DispatchCalPaused
    \/ DispatchCalPending
    \/ DispatchSend("w1")
    \/ WsConnect("w1")
    \/ cal_start

SpecCalProfile == Init /\ [][NextCalProfile]_vars

\* C13: while calibration is active the classifier applies the calibration
\* profile: the burst captured as the calibration pending burst has
\* sum_energy of at least 5,000 and a classifier score of at least 13.
C13_PendingMeetsCalibrationProfile ==
    calibration.pending # NoPending =>
        \E i \in DOMAIN accepted :
            /\ accepted[i].seq = calibration.pending.seq
            /\ accepted[i].energy >= 5000
            /\ accepted[i].score >= score_thresh_calibration

\* ------------------------------------------ the classifier as a function
\* the channel energies and peaks the classification is probed with: values
\* on both sides of min_energy (one channel of 25, two of 11 = 22),
\* min_max_energy, the 2,000 / 5,000 / 10,000 energy marks and the 320 peak
EProbes == {0, 11, 25, 1600, 2500, 4000}

PProbes == {100, 319, 320, 800}

\* a bundle whose channel "0" has peak pk and whose other channels have
\* peak pk - po
BundleP(n, w, s, e, pk, po) ==
    [type |-> "hit_bundle",
     ch |-> <<Chan(n, pk), Chan(w, pk - po), Chan(s, pk - po), Chan(e, pk - po)>>,
     peak_tdoa_us |-> NoTdoa, tdoa_us |-> NoTdoa]

NoDecision == [label |-> "none", reason |-> "none", score |-> 0]

InitClassify ==
    /\ InitProgram
    /\ probe \in {[fn |-> "classify", msg |-> BundleP(n, w, s, e, pk, po),
                   is_cal |-> cal, done |-> FALSE, energy |-> 0,
                   dec |-> NoDecision, out |-> NoDecision] :
                  n \in EProbes, w \in EProbes, s \in EProbes, e \in EProbes,
                  pk \in PProbes, po \in {0, 30}, cal \in BOOLEAN}

\* the classification of lines 537-657 applied to the probe's burst, with the
\* EMA baseline of the moment
ApplyClassify ==
    /\ probe.fn = "classify"
    /\ ~probe.done
    /\ LET f      == Features(probe.msg)
           comp   == extract_compass_peaks(probe.msg)
           energy == comp["N"] + comp["E"] + comp["W"] + comp["S"]
           delta  == QuoT(energy * 100 - EmaSeeded(energy), 100)
       IN probe' = [probe EXCEPT
                       !.done = TRUE, !.energy = energy,
                       !.dec = ScoreDecision(f, energy, delta, probe.is_cal),
                       !.out = Classify(f, energy, delta, probe.is_cal)]
    /\ UNCHANGED <<now, next_seq, ingestVars, queue, mode, RINGS_CM, calVars,
                   clients, sock, state, sessVars, disp, recorded>>

\* One burst classified, before or after a quiet burst has set the EMA
\* baseline.
NextClassify ==
    \/ ApplyClassify
    \/ DatagramReceived(BGhost, 1)

SpecClassify == InitClassify /\ [][NextClassify]_vars

\* C14: no burst is accepted as a HIT unless it passes every hard gate:
\* sum_energy >= 25, max_energy >= 12, (dom_ratio >= 0.35 or sum_energy >=
\* 10,000), and not (max_peak < 320 and sum_energy < 2,000).
C14_HitPassesHardGates ==
    (probe.done /\ probe.out.label = "HIT") =>
        LET f == Features(probe.msg)
        IN /\ f.sum_energy >= 25
           /\ f.max_energy >= 12
           /\ (f.dom_ratio >= 350 \/ f.sum_energy >= 10000)
           /\ ~(f.max_peak < 320 /\ f.sum_energy < 2000)

\* a HIT that passes the dominance gate only by its sum_energy
C14_Witness ==
    /\ probe.done
    /\ probe.out.label = "HIT"
    /\ Features(probe.msg).dom_ratio < 350

\* C15: no burst with sum_energy < 5,000 is accepted as a HIT unless its
\* classifier score is at least threshold + 5; the override is applied after
\* the weighted-score decision and only ever turns a HIT into a GHOST.
C15_LowEnergyOverride ==
    probe.done =>
        /\ (probe.out.label = "HIT" /\ probe.energy < 5000)
              => probe.out.score >= ScoreThresh(probe.is_cal) + 5
        /\ probe.out # probe.dec
              => /\ probe.dec.label = "HIT"
                 /\ probe.out.label = "GHOST"
                 /\ probe.out.score = probe.dec.score

\* a HIT of the weighted-score decision with sum_energy < 5,000 that the
\* override turned into a GHOST
C15_Witness ==
    /\ probe.done
    /\ probe.energy < 5000
    /\ probe.dec.label = "HIT"
    /\ probe.out.label = "GHOST"

\* C16 as stated: a burst whose total energy is exactly MIN_ENERGY (25) is
\* classified GHOST, whatever its peaks and energy distribution.
C16_ExactMinEnergyIsGhost ==
    (probe.done /\ probe.energy = min_energy) => probe.out.label = "GHOST"

\* C16, amended: a burst whose total energy is exactly MIN_ENERGY (25) is not
\* rejected by the MIN_ENERGY gate (the test is strict); the remaining gates
\* decide: it is a HIT exactly when, outside the calibration profile,
\* max_energy >= 12, dom_ratio >= 0.35, max_peak >= 320 and its score is at
\* least threshold + 5, and a GHOST otherwise.
C16_ExactMinEnergyPassesGate ==
    (probe.done /\ probe.energy = min_energy) =>
        LET f == Features(probe.msg)
        IN /\ probe.out.reason # "energy"
           /\ probe.out.label \in {"HIT", "GHOST"}
           /\ probe.out.label = "HIT" <=>
                  /\ ~probe.is_cal
                  /\ f.max_energy >= 12
                  /\ f.dom_ratio >= 350
                  /\ f.max_peak >= 320
                  /\ probe.out.score >= ScoreThresh(probe.is_cal) + 5

\* a burst of total energy 25 classified HIT
C16_Witness ==
    /\ probe.done
    /\ probe.energy = min_energy
    /\ probe.out.label = "HIT"

\* -------------------------------------------- the dead-centre scenario (C17)
\* a bundle with an interrupt-based TDOA map for all four channels
BundleT(n, w, s, e, pk, t) ==
    [Bundle(n, w, s, e, pk) EXCEPT !.tdoa_us = TdoaMap(t)]

\* four channels of energy2 1000 and peak 500, all-zero TDOA map
BDeadCentre == BundleT(1000, 1000, 1000, 1000, 500, <<0, 0, 0, 0>>)

\* four channels of energy2 3000 and peak 800, all-zero TDOA map
BDeadCentreStrong == BundleT(3000, 3000, 3000, 3000, 800, <<0, 0, 0, 0>>)

\* Shooting mode, no calibration fit, the shipped ring table: the first burst
\* is the dead-centre burst of the scenario, the later ones are the strong
\* dead-centre burst; one client listens.
NextScenario ==
    \/ Tick(cooldown_s, MaxTime)
    \/ /\ next_seq = 1
       /\ DatagramReceived(BDeadCentre, MaxBursts)
    \/ /\ next_seq > 1
       /\ DatagramReceived(BDeadCentreStrong, MaxBursts)
    \/ DispatchGet
    \/ DispatchSend("w1")
    \/ WsConnect("w1")

SpecScenario == Init /\ [][NextScenario]_vars

\* every event on the queue or in the dispatcher's hands is at the centre, and
\* every shot sent scored "X"
AllDeadCentre ==
    /\ \A i \in DOMAIN queue :
          /\ queue[i].sx = 0 /\ queue[i].sy = 0
          /\ queue[i].x = 0 /\ queue[i].y = 0 /\ queue[i].r = 0
    /\ \A w \in WS : \A i \in DOMAIN sock[w].inbox :
          IsShot(sock[w].inbox[i]) => sock[w].inbox[i].score = "X"

\* C17 as stated: in shooting mode with the identity calibration and no hit
\* within the preceding cooldown, a burst whose four channels all report
\* squared energy 1000 and peak 500 with an all-zero TDOA map is accepted and
\* dispatched as a shot with sx = sy = 0, (x, y) = (0, 0), r = 0 and score "X".
C17_DeadCentreIsX ==
    /\ last_rx.seq = 1 => (last_rx.hit /\ last_rx.outcome = "queued")
    /\ next_seq > 1 => (accepted # <<>> /\ accepted[1].seq = 1)
    /\ AllDeadCentre

\* C17, amended: the burst of the scenario (sum_energy 4000, dom_ratio 0.25)
\* is classified GHOST and never dispatched; a burst whose four channels all
\* report squared energy 3000 and peak 800 with an all-zero TDOA map, in
\* shooting mode with the identity calibration and no hit within the preceding
\* cooldown, is accepted and dispatched as a shot with sx = sy = 0,
\* (x, y) = (0, 0), r = 0 and score "X".
C17_StrongDeadCentreIsX ==
    /\ last_rx.seq = 1 => (~last_rx.hit /\ last_rx.outcome = "ghost")
    /\ \A i \in DOMAIN accepted : accepted[i].seq # 1
    /\ (last_rx.seq > 1 /\ ~InCooldown(last_rx.dt))
          => (last_rx.hit /\ last_rx.outcome = "queued")
    /\ \A i \in DOMAIN recorded : recorded[i] = accepted[i].seq
    /\ AllDeadCentre

\* the scenario's burst was dropped and a strong dead-centre burst reached the
\* client as an "X"
C17_Witness ==
    /\ accepted # <<>>
    /\ accepted[1].seq = 2
    /\ \E i \in DOMAIN sock["w1"].inbox :
          /\ IsShot(sock["w1"].inbox[i])
          /\ sock["w1"].inbox[i].seq = 2
          /\ sock["w1"].inbox[i].score = "X"

\* ------------------------------------------ the range of the features (C18)
\* E at 16384 against W at 0, N = S = 2877, and a TDOA map whose W arrival
\* is 12600 us after the E arrival: both estimates are sx = 1, sy = 0
BEdgeEast == BundleT(2877, 0, 2877, 16384, 800, <<100, 12600, 100, 0>>)

\* the mirror image: both estimates are sx = -1, sy = 0
BEdgeWest == BundleT(2877, 16384, 2877, 0, 800, <<100, 0, 100, 12600>>)

\* no energy on the N-S axis, TDOA map with distinct N and S arrivals
BZeroAxis == BundleT(0, 1000, 0, 9000, 800, <<300, 9000, 0, 100>>)

\* the energy estimate at sx = 0.5, the TDOA estimate at sx = 0.2
BDisagree == BundleT(3000, 2000, 3000, 6000, 800, <<100, 2520, 100, 0>>)

FusionBursts == {BEdgeEast, BEdgeWest, BZeroAxis, BDisagree, BCentre}

\* Shooting mode, no calibration fit: bursts with TDOA maps arrive, the
\* dispatcher drains the queue, one client listens.
NextFusion ==
    \/ Tick(cooldown_s, MaxTime)
    \/ \E msg \in FusionBursts : DatagramReceived(msg, MaxBursts)
    \/ DispatchGet
    \/ DispatchSend("w1")
    \/ WsConnect("w1")

SpecFusion == Init /\ [][NextFusion]_vars

\* C18: for every accepted burst the feature pair handed to the coordinate
\* mapper satisfies -1 <= sx <= 1 and -1 <= sy <= 1, whatever the fusion
\* method, the channel energies and the TDOA map.
C18_FeaturesWithinUnitSquare ==
    \A i \in DOMAIN queue :
        /\ -10000 <= queue[i].sx /\ queue[i].sx <= 10000
        /\ -10000 <= queue[i].sy /\ queue[i].sy <= 10000

\* ------------------------------------------- the fusion method rule (C19)
\* the TDOA results fuse_localization is applied to: features in
\* ten-thousandths, confidences in thousandths
FuseTdoa ==
    {TdoaUnavailable} \cup
    {[ok |-> TRUE, sx |-> x, sy |-> y, conf |-> c] :
        x \in {-8000, 0, 2000, 4000}, y \in {0, 3000},
        c \in {0, 50, 100, 150, 700}}

NoFusion == [sx |-> 0, sy |-> 0, method |-> "none"]

InitFuse ==
    /\ InitProgram
    /\ probe \in {[fn |-> "fuse", e |-> [sx |-> x, sy |-> 0], energy_conf |-> c,
                   t |-> t, done |-> FALSE, out |-> NoFusion] :
                  x \in {-7000, 0, 4000, 5000}, c \in {0, 50, 74, 75, 700},
                  t \in FuseTdoa}

\* fuse_localization applied to the probe's estimates
ApplyFuse ==
    /\ probe.fn = "fuse"
    /\ ~probe.done
    /\ probe' = [probe EXCEPT
                    !.done = TRUE,
                    !.out = fuse_localization(probe.e, probe.energy_conf, probe.t)]
    /\ UNCHANGED <<now, next_seq, ingestVars, queue, mode, RINGS_CM, calVars,
                   clients, sock, state, sessVars, disp, recorded>>

NextFuse == ApplyFuse

SpecFuse == InitFuse /\ [][NextFuse]_vars

\* the square of the disagreement D between the probe's two estimates
ProbeD2 ==
    (probe.e.sx - probe.t.sx) * (probe.e.sx - probe.t.sx)
    + (probe.e.sy - probe.t.sy) * (probe.e.sy - probe.t.sy)

\* C19: fuse_localization chooses its method from TDOA availability, the
\* confidence sum and the disagreement D alone: energy_only when TDOA is
\* missing; low_conf_avg when energy_conf + 0.5 * tdoa_conf < 0.1; otherwise
\* agree_fuse for D < 0.2, disagree_fuse for 0.2 <= D < 0.5 and
\* high_disagree_energy for D >= 0.5; in the energy_only and
\* high_disagree_energy cases the output is the energy estimate unchanged.
C19_FusionMethodRule ==
    (probe.fn = "fuse" /\ probe.done) =>
        /\ probe.out.method =
              IF ~probe.t.ok THEN "energy_only"
              ELSE IF 2 * probe.energy_conf + probe.t.conf < 200 THEN "low_conf_avg"
              ELSE IF ProbeD2 < 2000 * 2000 THEN "agree_fuse"
              ELSE IF ProbeD2 < 5000 * 5000 THEN "disagree_fuse"
              ELSE "high_disagree_energy"
        /\ probe.out.method \in {"energy_only", "high_disagree_energy"}
              => (probe.out.sx = probe.e.sx /\ probe.out.sy = probe.e.sy)

\* energy (0.4, 0.0) against TDOA (-0.8, 0.3) came out as (0.4, 0.0)
C19_Witness ==
    /\ probe.fn = "fuse" /\ probe.done
    /\ probe.e = [sx |-> 4000, sy |-> 0]
    /\ probe.t.ok /\ probe.t.sx = -8000 /\ probe.t.sy = 3000
    /\ probe.energy_conf = 700 /\ probe.t.conf = 700
    /\ probe.out = [sx |-> 4000, sy |-> 0, method |-> "high_disagree_energy"]

\* ------------------------------------------- incomplete TDOA maps (C20)
\* the bursts the localization is applied to: energy2 (3000, 2000, 3000,
\* 6000), peak 800, and a tdoa_us map with all four channels or with one
\* channel absent, each value -1, 0, 100 or 2520 us
InitLocalize ==
    /\ InitProgram
    /\ probe \in {[fn |-> "localize",
                   msg |-> [Bundle(3000, 2000, 3000, 6000, 800) EXCEPT
                               !.tdoa_us = [keys |-> k, t |-> t]],
                   done |-> FALSE, t |-> TdoaUnavailable, out |-> NoFusion] :
                  k \in {1..4} \cup {(1..4) \ {j} : j \in 1..4},
                  t \in [1..4 -> {-1, 0, 100, 2520}]}

\* the TDOA estimate and the fusion of lines 739-770 applied to the probe's
\* burst
ApplyLocalize ==
    /\ probe.fn = "localize"
    /\ ~probe.done
    /\ probe' = [probe EXCEPT
                    !.done = TRUE,
                    !.t = TdoaEstimate(probe.msg),
                    !.out = FusedFeatures(probe.msg, Features(probe.msg),
                                          extract_compass_peaks(probe.msg))]
    /\ UNCHANGED <<now, next_seq, ingestVars, queue, mode, RINGS_CM, calVars,
                   clients, sock, state, sessVars, disp, recorded>>

NextLocalize == ApplyLocalize

SpecLocalize == InitLocalize /\ [][NextLocalize]_vars

\* C20: the TDOA estimate is used only when all four channels carry an
\* arrival time: if a channel is absent from the map, or its value is -1,
\* the TDOA localizer reports unavailable and fusion returns the energy
\* estimate with method energy_only.
C20_IncompleteTdoaIsEnergyOnly ==
    (/\ probe.fn = "localize"
     /\ probe.done
     /\ \/ probe.msg.tdoa_us.keys # 1..4
        \/ \E j \in probe.msg.tdoa_us.keys : probe.msg.tdoa_us.t[j] = -1)
    => /\ ~probe.t.ok
       /\ probe.out.method = "energy_only"
       /\ probe.out.sx = EnergyEstimate(extract_compass_peaks(probe.msg)).sx
       /\ probe.out.sy = EnergyEstimate(extract_compass_peaks(probe.msg)).sy

\* ------------------------------------------------------ the calibration fit
\* the sample counts of _compute_fit_internal and cal_confirm
MIN_FIT_SAMPLES == 3    \* lines 297 and 312

POLY2_SAMPLES == 6      \* line 316

AUTO_FIT_SAMPLES == 6   \* line 592

MaxFitVersion == 2      \* fits computed in one run

MaxSamples == 6         \* samples confirmed in one calibration

\* the truth coordinates the operator confirms with, hundredths of a cm
CalTruths == {[x_gt |-> 1000, y_gt |-> -500]}

\* (variant of line 574 that stores the estimated position as the truth)
SampleOf_estimate(pending, payload) ==
    [seq |-> pending.seq, ts |-> pending.ts, sx |-> pending.sx, sy |-> pending.sy,
     x |-> pending.x, y |-> pending.y, r |-> pending.r,
     x_gt |-> pending.x, y_gt |-> pending.y]

\* sample = {**pending, "x_gt": x_gt, "y_gt": y_gt} (line 574)
SampleOf(pending, payload) ==
    [seq |-> pending.seq, ts |-> pending.ts, sx |-> pending.sx, sy |-> pending.sy,
     x |-> pending.x, y |-> pending.y, r |-> pending.r,
     x_gt |-> payload.x_gt, y_gt |-> payload.y_gt]

\* the row of the design matrix A for one sample (lines 322-326)
DesignRow(sx, sy, use_poly2) ==
    IF use_poly2
    THEN <<sx, sy, QuoT(sx * sy, 10000), (sx * sx) \div 10000, (sy * sy) \div 10000, 10000>>
    ELSE <<sx, sy, 10000>>

\* the bursts of all samples hit the same place: all rows of A are equal
SameRows(samples) ==
    \A i, j \in 1..Len(samples) :
        samples[i].sx = samples[j].sx /\ samples[i].sy = samples[j].sy

RECURSIVE Norm2(_)
Norm2(row) == IF row = <<>> THEN 0 ELSE (Head(row) * Head(row)) \div 10000 + Norm2(Tail(row))

\* np.linalg.lstsq(A, b, rcond=None) for a matrix A whose rows all equal
\* `row`: the minimum-norm least-squares solution row * mean(b) / (row . row)
lstsq(row, b) ==
    [i \in 1..Len(row) |-> QuoT(row[i] * QuoT(SumSeq(b), Len(b)), Norm2(row))]

\* the column of one field of the samples
Column(samples, field) == [i \in 1..Len(samples) |-> samples[i][field]]

\* (variant of line 316 that picks the quadratic basis from 3 samples on)
UsePoly2_always(n_valid) == n_valid >= MIN_FIT_SAMPLES

\* line 316: use_poly2 = n_valid >= 6
UsePoly2(n_valid) == n_valid >= POLY2_SAMPLES

\* the fit of lines 316-356 from the valid samples: every sample of the
\* model carries sx, sy, x_gt and y_gt, so none is dropped at lines 301-309
FitOf(valid_samples, use_poly2) ==
    [model |-> IF use_poly2 THEN "poly2_sxsy" ELSE "linear_sxsy",
     x |-> lstsq(DesignRow(valid_samples[1].sx, valid_samples[1].sy, use_poly2),
                 Column(valid_samples, "x_gt")),
     y |-> lstsq(DesignRow(valid_samples[1].sx, valid_samples[1].sy, use_poly2),
                 Column(valid_samples, "y_gt")),
     n |-> Len(valid_samples)]

\* (variant of line 297 that accepts two samples)
compute_fit_internal_two(samples) ==
    IF Len(samples) < 2
    THEN [ok |-> FALSE, error |-> "need at least 3 samples"]
    ELSE [ok |-> TRUE, fit |-> FitOf(samples, UsePoly2(Len(samples)))]

\* _compute_fit_internal: (fit_result, None) or (None, error)
compute_fit_internal(samples) ==
    IF Len(samples) < MIN_FIT_SAMPLES
    THEN [ok |-> FALSE, error |-> "need at least 3 samples"]
    ELSE [ok |-> TRUE, fit |-> FitOf(samples, UsePoly2(Len(samples)))]

\* {"model": ..., "params": ...}: the part of a fit result that is installed
ActiveFitOf(fit) == [model |-> fit.model, x |-> fit.x, y |-> fit.y]

\* (variant of lines 361-364 that counts the version and leaves the active
\* fit to apply)
InstallFit_version_only(fit) ==
    /\ calibration_fit_version' = calibration_fit_version + 1
    /\ UNCHANGED calibration_fit

\* lines 361-364: the new fit is installed as soon as it is computed
InstallFit(fit) ==
    /\ calibration_fit_version' = calibration_fit_version + 1
    /\ calibration_fit' = ActiveFitOf(fit)

\* line 592: if count >= 6
AutoFitDue(count) == count >= AUTO_FIT_SAMPLES

\* the rest of cal_confirm (lines 589-605) after the sample was appended
ConfirmFit(cal, count, res) ==
    IF AutoFitDue(count) /\ res.ok
    THEN /\ InstallFit(res.fit)
         /\ calibration' = [cal EXCEPT !.fit = res.fit]
         /\ cal_response' = [op |-> "confirm", ok |-> TRUE, count |-> count,
                             fit_applied |-> TRUE]
    ELSE /\ calibration' = cal
         /\ cal_response' = [op |-> "confirm", ok |-> TRUE, count |-> count,
                             fit_applied |-> FALSE]
         /\ UNCHANGED <<calibration_fit, calibration_fit_version>>

\* POST /api/calibration/confirm, served with no other thread running in
\* between (the steps of a request that is preempted follow under C38)
cal_confirm(payload) ==
    /\ Len(calibration.samples) < MaxSamples
    /\ calibration_fit_version < MaxFitVersion
    /\ IF ~calibration.active
       THEN /\ cal_response' = [op |-> "confirm", ok |-> FALSE, error |-> "not active"]
            /\ UNCHANGED <<calibration, calibration_fit, calibration_fit_version>>
       ELSE IF calibration.pending = NoPending
       THEN /\ cal_response' = [op |-> "confirm", ok |-> FALSE,
                                error |-> "no pending shot"]
            /\ UNCHANGED <<calibration, calibration_fit, calibration_fit_version>>
       ELSE /\ SameRows(Append(calibration.samples, calibration.pending))
            /\ ConfirmFit([calibration EXCEPT
                              !.samples = Append(@, SampleOf(calibration.pending, payload)),
                              !.pending = NoPending],
                          Len(calibration.samples) + 1,
                          compute_fit_internal(
                              Append(calibration.samples,
                                     SampleOf(calibration.pending, payload))))
    /\ UNCHANGED <<probe, now, next_seq, ingestVars, queue, mode, RINGS_CM, fit_file,
                   apply, clients, sock, state, sessVars, disp, recorded>>

\* the rest of cal_compute (lines 612-616)
ComputeDone(res) ==
    IF ~res.ok
    THEN /\ cal_response' = [op |-> "compute", ok |-> FALSE, error |-> res.error]
         /\ UNCHANGED <<calibration, calibration_fit, calibration_fit_version>>
    ELSE /\ InstallFit(res.fit)
         /\ calibration' = [calibration EXCEPT !.fit = res.fit]
         /\ cal_response' = [op |-> "compute", ok |-> TRUE, n |-> res.fit.n]

\* POST /api/calibration/compute
cal_compute ==
    /\ calibration_fit_version < MaxFitVersion
    /\ SameRows(calibration.samples)
    /\ ComputeDone(compute_fit_internal(calibration.samples))
    /\ UNCHANGED <<probe, now, next_seq, ingestVars, queue, mode, RINGS_CM, fit_file,
                   apply, clients, sock, state, sessVars, disp, recorded>>

\* ---------------------------------------------------------- the fit on disk
\* a file that was opened for writing and holds no complete JSON document
TornFile == [exists |-> TRUE, complete |-> FALSE]

\* a file that holds json.dump(fit)
FileOf(fit) == [exists |-> TRUE, complete |-> TRUE, fit |-> fit]

\* the models cal_apply accepts (line 627)
APPLY_MODELS == {"affine_sxsy", "poly2_sxsy"}

\* line 627: if not fit or fit.get("model") not in (...)
CanApply(fit) == fit # NoFit /\ fit.model \in APPLY_MODELS

\* cal_apply, lines 624-631: the computed fit becomes the active fit and the
\* request goes on to _save_fit_to_disk
cal_apply(t) ==
    /\ apply[t].pc = "idle"
    /\ IF ~CanApply(calibration.fit)
       THEN /\ cal_response' = [op |-> "apply", ok |-> FALSE,
                                error |-> "no computed fit to apply"]
            /\ UNCHANGED <<calibration_fit, apply>>
       ELSE /\ calibration_fit' = ActiveFitOf(calibration.fit)
            /\ apply' = [apply EXCEPT ![t] = [pc |-> "open", fd |-> "none",
                                              fit |-> ActiveFitOf(calibration.fit)]]
            /\ UNCHANGED cal_response
    /\ UNCHANGED <<probe, now, next_seq, ingestVars, queue, mode, RINGS_CM, calibration,
                   calibration_fit_version, fit_file, clients, sock, state, sessVars,
                   disp, recorded>>

\* _save_fit_to_disk, line 283: open(tmp, "w") creates the temp file or
\* truncates the one that is there
save_open(t) ==
    /\ apply[t].pc = "open"
    /\ fit_file' = [fit_file EXCEPT !.tmp = TornFile]
    /\ apply' = [apply EXCEPT ![t] = [@ EXCEPT !.pc = "dump", !.fd = "tmp"]]
    /\ UNCHANGED <<probe, now, next_seq, ingestVars, queue, mode, RINGS_CM, calibration,
                   calibration_fit, calibration_fit_version, cal_response, clients, sock,
                   state, sessVars, disp, recorded>>

\* what a file holds after json.dump(fit) was written from offset 0 through
\* a handle: the document, or its overlay on a longer document that another
\* handle wrote since the file was truncated
Written(file, fit) ==
    IF file.complete /\ file.fit # fit THEN {FileOf(fit), TornFile} ELSE {FileOf(fit)}

\* _save_fit_to_disk, line 284 and the end of the with block: the document
\* leaves the buffer when the file is closed; the handle names the file the
\* temp path named at open, wherever that file is now
save_dump(t) ==
    /\ apply[t].pc = "dump"
    /\ \/ /\ apply[t].fd = "tmp"
          /\ \E f \in Written(fit_file.tmp, apply[t].fit) :
                 fit_file' = [fit_file EXCEPT !.tmp = f]
       \/ /\ apply[t].fd = "canon"
          /\ \E f \in Written(fit_file.canon, apply[t].fit) :
                 fit_file' = [fit_file EXCEPT !.canon = f]
       \/ /\ apply[t].fd = "unlinked"
          /\ UNCHANGED fit_file
    /\ apply' = [apply EXCEPT ![t] = [@ EXCEPT !.pc = "replace", !.fd = "none"]]
    /\ UNCHANGED <<probe, now, next_seq, ingestVars, queue, mode, RINGS_CM, calibration,
                   calibration_fit, calibration_fit_version, cal_response, clients, sock,
                   state, sessVars, disp, recorded>>

\* the open handles after the file at `path` lost its name
Unlinked(ap, path) ==
    [u \in DOMAIN ap |->
        IF ap[u].pc = "dump" /\ ap[u].fd = path THEN [ap[u] EXCEPT !.fd = "unlinked"]
        ELSE ap[u]]

\* the open handles after os.replace(tmp, CAL_FIT_PATH)
Renamed(ap) ==
    [u \in DOMAIN ap |->
        IF ap[u].pc = "dump" /\ ap[u].fd = "tmp" THEN [ap[u] EXCEPT !.fd = "canon"]
        ELSE ap[u]]

\* _save_fit_to_disk, line 285, and the rest of cal_apply (lines 635-645):
\* os.replace puts the temp file under the canonical path in one step and
\* raises when the temp file is gone
save_replace(t) ==
    /\ apply[t].pc = "replace"
    /\ IF fit_file.tmp.exists
       THEN /\ fit_file' = [canon |-> fit_file.tmp, tmp |-> NoFile]
            /\ apply' = [Renamed(Unlinked(apply, "canon")) EXCEPT ![t] = ApplyIdle]
            /\ calibration' = [calibration EXCEPT !.active = FALSE, !.paused = FALSE,
                                                  !.pending = NoPending]
            /\ mode' = "shooting"
            /\ cal_response' = [op |-> "apply", ok |-> TRUE, applied |-> TRUE]
       ELSE /\ apply' = [apply EXCEPT ![t] = ApplyIdle]
            /\ cal_response' = [op |-> "apply", ok |-> FALSE, error |-> "OSError"]
            /\ UNCHANGED <<fit_file, calibration, mode>>
    /\ UNCHANGED <<probe, now, next_seq, ingestVars, queue, RINGS_CM, calibration_fit,
                   calibration_fit_version, clients, sock, state, sessVars, disp,
                   recorded>>

\* a disk error in _save_fit_to_disk: open or the write raises OSError, which
\* leaves cal_apply at line 632; a handle that was open is closed
save_fail(t) ==
    /\ apply[t].pc \in {"open", "dump"}
    /\ apply' = [apply EXCEPT ![t] = ApplyIdle]
    /\ cal_response' = [op |-> "apply", ok |-> FALSE, error |-> "OSError"]
    /\ UNCHANGED <<probe, now, next_seq, ingestVars, queue, mode, RINGS_CM, calibration,
                   calibration_fit, calibration_fit_version, fit_file, clients, sock,
                   state, sessVars, disp, recorded>>

\* the startup test of lines 146-152 for a fit calibrated in metres: both
\* constant offsets are below 1.0
MeterBased(fit) ==
    /\ Len(fit.x) > 0
    /\ Len(fit.y) > 0
    /\ Abs(fit.x[Len(fit.x)]) < 100
    /\ Abs(fit.y[Len(fit.y)]) < 100

\* the fit startup reads from the canonical file (lines 141-156): a missing
\* or unparsable file raises inside the try and leaves None
LoadFit(file) ==
    IF file.exists /\ file.complete /\ ~MeterBased(file.fit) THEN file.fit ELSE NoFit

\* the process is restarted, after a crash or a shutdown: the module state
\* is initialised again and startup loads the fit from the canonical file;
\* the files, the database, the clock and the sensor node are not touched
startup ==
    /\ calibration_fit' = LoadFit(fit_file.canon)
    /\ fit_file' = IF fit_file.canon.exists /\ fit_file.canon.complete
                      /\ MeterBased(fit_file.canon.fit)
                   THEN [fit_file EXCEPT !.canon = NoFile]
                   ELSE fit_file
    /\ calibration_fit_version' = 0
    /\ calibration' = [active |-> FALSE, paused |-> FALSE, pending |-> NoPending,
                       samples |-> <<>>, fit |-> NoFit]
    /\ apply' = [t \in ApplyThreads |-> ApplyIdle]
    /\ cal_response' = NoResponse
    /\ last_accept_ts' = 0
    /\ energy_ema' = 0
    /\ drop_counter' = 0
    /\ queue' = <<>>
    /\ mode' = "shooting"
    /\ RINGS_CM' = RINGS_CM_DEFAULT
    /\ clients' = {}
    /\ sock' = [w \in WS |-> [conn |-> "new", inbox |-> <<>>]]
    /\ state' = NewSessionState(0, ARROWS_PER_END, MAX_ENDS)
    /\ session_manager' = [state |-> NoSession, active_session_id |-> 0]
    /\ disp' = DispIdle
    /\ UNCHANGED <<probe, now, next_seq, db, accepted, recorded, last_rx>>

\* ------------------------------------------------ the calibration controller
FitBursts == 6     \* datagrams the sensor node sends in a calibration run

\* the last clock tick of a calibration run: one cooldown period per datagram
FitTime == FitBursts * cooldown_s

\* the archer shoots the next calibration arrow when the last burst has been
\* handled and confirmed and the cooldown has passed
ShotDue ==
    /\ calibration.active
    /\ calibration.pending = NoPending
    /\ queue = <<>>
    /\ disp.pc = "get"
    /\ now - last_accept_ts >= cooldown_s

\* a calibration run: the sensor node reports hits at (sx, sy) = (0.8, 0),
\* one cooldown apart, the operator drives the calibration endpoints, and
\* the process is restarted once a fit has been persisted
NextFit ==
    \/ /\ now - last_accept_ts < cooldown_s
       /\ Tick(cooldown_s, FitTime)
    \/ /\ ShotDue
       /\ DatagramReceived(BMiss, FitBursts)
    \/ DispatchGet
    \/ DispatchCalPaused
    \/ DispatchCalPending
    \/ cal_start
    \/ \E payload \in CalTruths : cal_confirm(payload)
    \/ cal_compute
    \/ cal_apply("t1")
    \/ save_open("t1")
    \/ save_dump("t1")
    \/ save_replace("t1")
    \/ save_fail("t1")
    \/ cal_reset
    \/ /\ fit_file.canon.exists
       /\ startup

SpecFit == Init /\ [][NextFit]_vars

\* ---------------------------------------------------------------------- C21
\* a step in which a confirm request was answered
ConfirmAnswered ==
    /\ cal_response' # cal_response
    /\ cal_response'.op = "confirm"

\* the last sample is the pending burst with truth coordinates of a payload
IsSampleOf(s, pending) ==
    /\ s.seq = pending.seq /\ s.ts = pending.ts
    /\ s.sx = pending.sx /\ s.sy = pending.sy
    /\ s.x = pending.x /\ s.y = pending.y /\ s.r = pending.r
    /\ \E payload \in CalTruths : s.x_gt = payload.x_gt /\ s.y_gt = payload.y_gt

\* C21: a confirm request made while calibration is active and a burst is
\* pending appends exactly one sample, the pending burst with the truth
\* coordinates of the request, and clears pending; a confirm request made
\* while calibration is not active or no burst is pending is answered with
\* an error and leaves samples, pending and the active fit as they were
C21_ConfirmAppendsOrRejects ==
    [][ConfirmAnswered =>
          IF calibration.active /\ calibration.pending # NoPending
          THEN /\ cal_response'.ok
               /\ Len(calibration'.samples) = Len(calibration.samples) + 1
               /\ SubSeq(calibration'.samples, 1, Len(calibration.samples))
                    = calibration.samples
               /\ IsSampleOf(calibration'.samples[Len(calibration'.samples)],
                             calibration.pending)
               /\ calibration'.pending = NoPending
          ELSE /\ ~cal_response'.ok
               /\ calibration'.samples = calibration.samples
               /\ calibration'.pending = calibration.pending
               /\ calibration_fit' = calibration_fit]_vars

\* a confirm has appended the second sample of a calibration
C21_Witness ==
    /\ cal_response.op = "confirm"
    /\ cal_response.ok
    /\ cal_response.count = 2
    /\ Len(calibration.samples) = 2
    /\ calibration.pending = NoPending
    /\ calibration.samples[2].x_gt = 1000

\* ---------------------------------------------------------------------- C22
\* C22: in every reachable state in which calibration is paused the pending
\* slot is empty: pause clears it and no burst handled by the dispatch loop
\* fills it again before resume, also when the pause request runs while the
\* dispatch loop is handling an event
C22_PausedHasNoPending ==
    calibration.paused => calibration.pending = NoPending

\* ---------------------------------------------------------------------- C23
\* C23: whenever calibration is not active (initially, after apply and after
\* reset) the controller holds no samples and no pending burst
C23_IdleHoldsNothing ==
    ~calibration.active =>
        /\ calibration.samples = <<>>
        /\ calibration.pending = NoPending

\* ---------------------------------------------------------------------- C24
\* a step in which a confirm request appended a sample
ConfirmAppended ==
    /\ ConfirmAnswered
    /\ cal_response'.ok

\* the step installed the fit of the samples it left, as a new version
FitInstalledFrom(samples) ==
    /\ calibration_fit_version' = calibration_fit_version + 1
    /\ calibration_fit' =
          ActiveFitOf(FitOf(samples, Len(samples) >= POLY2_SAMPLES))
    /\ calibration'.fit.n = Len(samples)

\* C24: every confirm that brings the number of samples to 3 or
\* more computes a fit and installs it as the active fit
C24_ConfirmFitsFromThree ==
    [][ConfirmAppended /\ Len(calibration'.samples) >= 3
          => FitInstalledFrom(calibration'.samples)]_vars

\* ---------------------------------------------------------------------- C25
\* the coefficient lists of a fit have the length its model requires
WellFormedFit(fit) ==
    \/ /\ fit.model = "linear_sxsy"
       /\ Len(fit.x) = 3
       /\ Len(fit.y) = 3
    \/ /\ fit.model = "poly2_sxsy"
       /\ Len(fit.x) = 6
       /\ Len(fit.y) = 6

ComputeAnswered ==
    /\ cal_response' # cal_response
    /\ cal_response'.op = "compute"

\* the step left the active fit, its version and the stored computed fit
FitStateUnchanged ==
    /\ calibration_fit' = calibration_fit
    /\ calibration_fit_version' = calibration_fit_version
    /\ calibration'.fit = calibration.fit

\* C26: a fit request with fewer than 3 valid samples, whether an explicit
\* compute or the fit of a confirm, is answered with an error where a fit
\* was requested and changes no state: the active fit, the fit version and
\* the stored computed fit are what they were before the request
C26_TooFewSamplesChangeNothing ==
    [][/\ (ComputeAnswered /\ Len(calibration.samples) < 3)
            => /\ ~cal_response'.ok
               /\ calibration' = calibration
               /\ FitStateUnchanged
       /\ (ConfirmAppended /\ Len(calibration'.samples) < 3)
            => FitStateUnchanged]_vars

\* a compute request was refused with two samples confirmed, while the fit
\* of an earlier calibration is active
C26_Witness ==
    /\ cal_response = [op |-> "compute", ok |-> FALSE,
                       error |-> "need at least 3 samples"]
    /\ Len(calibration.samples) = 2
    /\ calibration_fit # NoFit
    /\ calibration_fit_version = 1

\* ---------------------------------------------------------------------- C27
\* a step in which an apply request persisted the fit and returned
ApplySucceeded ==
    /\ \E t \in ApplyThreads : apply[t].pc = "replace" /\ apply'[t] = ApplyIdle
    /\ cal_response'.op = "apply"
    /\ cal_response'.ok

\* a step in which the process was restarted
Restarted ==
    /\ cal_response # NoResponse
    /\ cal_response' = NoResponse

\* C27: the fit version increases strictly on every successful apply, and no
\* calibration operation (start, confirm, compute, apply, reset) decreases
\* it
C27_VersionIncreases ==
    [][/\ ApplySucceeded => calibration_fit_version' > calibration_fit_version
       /\ ~Restarted => calibration_fit_version' >= calibration_fit_version]_vars

\* ---------------------------------------------------------------------- C28
\* a step in which an apply request was refused for want of a computed fit
ApplyRefused ==
    /\ cal_response' # cal_response
    /\ cal_response'.op = "apply"
    /\ ~cal_response'.ok
    /\ cal_response'.error = "no computed fit to apply"

\* C28: apply accepts a computed fit whose model is linear_sxsy, poly2_sxsy
\* or affine_sxsy, so it is refused only when no fit has been computed; in
\* particular the linear fit computed from 3 to 5 samples is accepted
C28_ApplyAcceptsComputedFit ==
    [][ApplyRefused =>
          \/ calibration.fit = NoFit
          \/ calibration.fit.model \notin {"linear_sxsy", "poly2_sxsy", "affine_sxsy"}]_vars

\* ---------------------------------------------------------------------- C29
\* a step in which datagram_received queued the event of an accepted burst
BurstQueued == Len(queue') = Len(queue) + 1

\* the event was mapped to cm with both axes of the fit
MappedWith(e, fit) ==
    /\ e.x = xy_from_features(e.sx, e.sy, fit).x
    /\ e.y = xy_from_features(e.sx, e.sy, fit).y
    /\ e.r = Hypot(e.x, e.y)

\* C29: once a fit has been computed, by compute or by the automatic fit of
\* confirm, every burst accepted afterwards is mapped with that fit, both
\* axes from the same complete fit, while the computation leaves the
\* canonical fit file as it was
C29_NewFitMapsNextBurst ==
    [][/\ (BurstQueued /\ calibration.fit # NoFit)
            => /\ WellFormedFit(calibration.fit)
               /\ MappedWith(queue'[Len(queue')], ActiveFitOf(calibration.fit))
       /\ ((ComputeAnswered \/ ConfirmAnswered) /\ cal_response'.ok)
            => /\ fit_file' = fit_file
               /\ calibration'.fit # NoFit
                     => calibration_fit' = ActiveFitOf(calibration'.fit)]_vars

\* the burst pending after a compute from three samples was mapped with the
\* linear fit of that compute (9.98, -4.98; the uncalibrated mapping gives
\* 50.40, 0), and no fit file has been written
C29_Witness ==
    /\ calibration.fit # NoFit
    /\ calibration.fit.n = 3
    /\ calibration_fit = [model |-> "linear_sxsy", x |-> <<487, 0, 609>>,
                          y |-> <<-243, 0, -304>>]
    /\ calibration.pending # NoPending
    /\ calibration.pending.sx = 8000
    /\ calibration.pending.x = 998
    /\ calibration.pending.y = -498
    /\ ~fit_file.canon.exists

\* ---------------------------------------------------------------------- C30
\* apply requests against the fit file: a calibration of six samples, apply
\* requests served by two worker threads, disk errors, and restarts of the
\* process once a fit has been persisted
NextApply ==
    \/ /\ now - last_accept_ts < cooldown_s
       /\ Tick(cooldown_s, FitTime)
    \/ /\ ShotDue
       /\ DatagramReceived(BMiss, FitBursts)
    \/ DispatchGet
    \/ DispatchCalPaused
    \/ DispatchCalPending
    \/ /\ ~calibration.active
       /\ cal_start
    \/ \E payload \in CalTruths : cal_confirm(payload)
    \/ \E t \in ApplyThreads : cal_apply(t)
    \/ \E t \in ApplyThreads : save_open(t)
    \/ \E t \in ApplyThreads : save_dump(t)
    \/ \E t \in ApplyThreads : save_replace(t)
    \/ \E t \in ApplyThreads : save_fail(t)
    \/ /\ fit_file.canon.exists
       /\ startup

SpecApply == Init /\ [][NextApply]_vars

\* a step in which _save_fit_to_disk failed with a disk error
SaveFailed ==
    /\ \E t \in ApplyThreads : apply[t].pc \in {"open", "dump"} /\ apply'[t] = ApplyIdle
    /\ cal_response'.op = "apply"
    /\ ~cal_response'.ok

\* C30: during apply the canonical fit file only ever holds a complete fit:
\* after every step its content is the complete fit it held before or the
\* complete fit {model, params} of an apply request; a disk error while the
\* temp file is written leaves the canonical file as it was and the active
\* fit in memory the one the request installed
C30_CanonicalFileIsComplete ==
    [][/\ fit_file'.canon.exists
            => /\ fit_file'.canon.complete
               /\ \/ fit_file'.canon = fit_file.canon
                  \/ \E t \in ApplyThreads :
                        /\ apply[t].pc # "idle"
                        /\ fit_file'.canon = FileOf(apply[t].fit)
       /\ SaveFailed
            => /\ fit_file'.canon = fit_file.canon
               /\ calibration_fit' = calibration_fit
               /\ calibration_fit # NoFit]_vars

\* ---------------------------------------------------------------------- C31
\* the truth coordinates of two arrow groups, hundredths of a cm: one away
\* from the centre of the target, one within a centimetre of it
ReloadTruths == {[x_gt |-> 1000, y_gt |-> -500], [x_gt |-> 100, y_gt |-> -50]}

\* the arrows of one calibration land at one place: each is confirmed with
\* the truth coordinates of the first
SameTruth(payload) ==
    IF calibration.samples = <<>> THEN TRUE
    ELSE /\ payload.x_gt = calibration.samples[1].x_gt
         /\ payload.y_gt = calibration.samples[1].y_gt

\* a calibration of six samples that is applied, and restarts of the process
\* once the fit has been persisted: one apply request at a time, no disk
\* error (json.dump writes the floats with repr and json.load reads them
\* back exactly, so the document read is the document written)
NextReload ==
    \/ /\ now - last_accept_ts < cooldown_s
       /\ Tick(cooldown_s, FitTime)
    \/ /\ ShotDue
       /\ DatagramReceived(BMiss, FitBursts)
    \/ DispatchGet
    \/ DispatchCalPaused
    \/ DispatchCalPending
    \/ /\ ~calibration.active
       /\ cal_start
    \/ \E payload \in ReloadTruths : SameTruth(payload) /\ cal_confirm(payload)
    \/ cal_apply("t1")
    \/ save_open("t1")
    \/ save_dump("t1")
    \/ save_replace("t1")
    \/ /\ fit_file.canon.exists
       /\ startup

SpecReload == Init /\ [][NextReload]_vars

\* what a burst becomes under a fit: the position of lines 790-791 of
\* datagram_received and the score of dispatch_loop under the shipped rings
ShotUnder(msg, fit) ==
    LET fu == FusedFeatures(msg, Features(msg), extract_compass_peaks(msg))
        xy == xy_from_features(fu.sx, fu.sy, fit)
        sc == score_from_r(RINGS_CM_DEFAULT, Hypot(xy.x, xy.y))
    IN [x |-> xy.x, y |-> xy.y, score |-> sc.score, is_x |-> sc.is_x]

\* C31: a restart loads the fit that apply persisted back unchanged as the
\* active fit and leaves the file in place, so a fixed burst maps to the same
\* (x, y, score) before and after the restart
C31_RestartLoadsPersistedFit ==
    [][(Restarted /\ fit_file.canon.exists /\ fit_file.canon.complete)
          => /\ calibration_fit' = fit_file.canon.fit
             /\ fit_file'.canon = fit_file.canon
             /\ \A msg \in {BMiss, BTen} :
                   ShotUnder(msg, calibration_fit') = ShotUnder(msg, calibration_fit)]_vars

\* ---------------------------------------------------------------------- C32
\* the shots saved under the session id sid
SavedUnder(sid) == {j \in DOMAIN db.shots : db.shots[j].session_id = sid}

\* C32: a session that was completed (every one of its arrows_per_end *
\* num_ends shots added and the completion saved) is complete in memory for
\* as long as it is held, is no longer the active session, and has no more
\* than arrows_per_end * num_ends shots saved under its id
C32_CompleteSessionIsClosed ==
    \A sid \in DOMAIN db.sessions :
        db.sessions[sid].is_complete =>
            /\ session_manager.active_session_id # sid
            /\ Cardinality(SavedUnder(sid)) <=
                   db.sessions[sid].arrows_per_end * db.sessions[sid].num_ends
            /\ (session_manager.state # NoSession
                  /\ session_manager.state.session_id = sid)
                    => is_complete(session_manager.state)

\* ---------------------------------------------------------------------- C33
\* the position of the stored shot j among the shots of its session
RankInSession(j) ==
    Cardinality({i \in SavedUnder(db.shots[j].session_id) : i <= j})

\* C33: the k-th shot of a session is stored with end_number ceil(k /
\* arrows_per_end) and shot_number ((k - 1) mod arrows_per_end) + 1, and no
\* two shots of one session are stored with the same (end_number,
\* shot_number)
C33_EndAndShotNumbers ==
    /\ \A j \in DOMAIN db.shots :
          LET k   == RankInSession(j)
              ape == db.sessions[db.shots[j].session_id].arrows_per_end
          IN /\ db.shots[j].end_number = ((k - 1) \div ape) + 1
             /\ db.shots[j].shot_number = ((k - 1) % ape) + 1
    /\ \A i, j \in DOMAIN db.shots :
          (/\ i # j
           /\ db.shots[i].session_id = db.shots[j].session_id
           /\ db.shots[i].end_number = db.shots[j].end_number)
             => db.shots[i].shot_number # db.shots[j].shot_number

\* ---------------------------------------------------------------------- C34
\* a step in which datagram_received handled a parsed hit_bundle
BundleReceived ==
    /\ next_seq' # next_seq
    /\ last_rx'.outcome # "not_a_bundle"

\* C34: every parsed hit_bundle moves the EMA baseline once, ema <- 0.95 *
\* ema + 0.05 * energy, whatever becomes of the burst (GHOST, dropped by the
\* mode check or by the cooldown, accepted); the first burst seeds the
\* baseline with its own energy, so that its delta is 0; nothing else moves
\* the baseline
C34_EveryBundleMovesEma ==
    [][IF BundleReceived
       THEN LET e    == last_rx'.energy * 100
                prev == IF energy_ema = 0 THEN e ELSE energy_ema
            IN /\ energy_ema' = ((100 - ema_alpha) * prev + ema_alpha * e) \div 100
               /\ last_rx'.delta = QuoT(e - prev, 100)
               /\ energy_ema = 0 => (last_rx'.delta = 0 /\ energy_ema' = e)
       ELSE energy_ema' = energy_ema]_vars

\* a HIT dropped by the cooldown moved the baseline: after a GHOST of energy
\* 20 and an accepted HIT of energy 12000 the baseline is 619.00, and the
\* dropped HIT of energy 12000 takes it to 1188.05
C34_Witness ==
    /\ last_rx.outcome = "cooldown"
    /\ last_rx.energy = 12000
    /\ last_rx.delta = 11381
    /\ energy_ema = 118805
    /\ Len(accepted) = 1

\* ---------------------------------------------------------------------- C35
\* the archer shoots the next arrow when the last burst has been handled
\* (and, in a calibration, confirmed) and the cooldown has passed
ArrowDue ==
    /\ calibration.active => calibration.pending = NoPending
    /\ queue = <<>>
    /\ disp.pc = "get"
    /\ now - last_accept_ts >= cooldown_s

\* a calibration run in the middle of a stored session: the session is
\* started before the first arrow, the operator starts a calibration once an
\* arrow has been scored and drives every calibration endpoint while the
\* dispatcher scores, stores and captures the bursts
NextCalSession ==
    \/ /\ now - last_accept_ts < cooldown_s
       /\ Tick(cooldown_s, FitTime + 2 * cooldown_s)
    \/ /\ ArrowDue
       /\ has_active_session
       /\ DatagramReceived(BMiss, FitBursts + 2)
    \/ DispatchGet
    \/ DispatchScreenshot
    \/ DispatchSaveShot(TRUE)
    \/ DispatchComplete(TRUE)
    \/ DispatchCalPaused
    \/ DispatchCalPending
    \/ /\ next_seq = 1
       /\ ~has_active_session
       /\ \E sh \in SessionShapes : start_session(sh[1], sh[2], MaxSessions)
    \/ /\ ~calibration.active
       /\ recorded # <<>>
       /\ cal_start
    \/ /\ calibration.active /\ ~calibration.paused
       /\ calibration.samples = <<>>
       /\ cal_pause
    \/ /\ calibration.paused
       /\ cal_resume
    \/ /\ calibration.pending # NoPending
       /\ \E payload \in CalTruths : cal_confirm(payload)
    \/ /\ Len(calibration.samples) = MIN_FIT_SAMPLES
       /\ calibration.fit = NoFit
       /\ cal_compute
    \/ /\ calibration.fit # NoFit
       /\ cal_apply("t1")
    \/ save_open("t1")
    \/ save_dump("t1")
    \/ save_replace("t1")
    \/ /\ fit_file.canon.exists
       /\ cal_reset

SpecCalSession == Init /\ [][NextCalSession]_vars

\* a step of a calibration operation (it changes the calibration state, the
\* fit, the fit files or answers a calibration request) or of the dispatcher
\* capturing a burst for the calibration
CalibrationStep ==
    \/ calVars' # calVars
    \/ disp.pc \in {"cal_paused", "cal_pending"}
    \/ disp'.pc = "cal_paused"

\* C35: no calibration operation and no burst captured as calibration
\* pending changes the scoreboard, the active session or the stored shots
C35_CalibrationKeepsSession ==
    [][CalibrationStep =>
          /\ state' = state
          /\ session_manager' = session_manager
          /\ db' = db
          /\ recorded' = recorded]_vars

\* a calibration holds a confirmed sample and a pending burst while the
\* scoreboard and the active session hold the shot made before it
C35_Witness ==
    /\ calibration.active
    /\ Len(calibration.samples) >= 1
    /\ calibration.pending # NoPending
    /\ get_total_arrows(state.ends) = 1
    /\ has_active_session
    /\ get_total_arrows(session_manager.state.ends) = 1
    /\ Len(db.shots) = 1

\* ---------------------------------------------------------------------- C36
\* The queue filled to its capacity as in the overflow run; once it is full
\* the sensor node fires at any moment of the 0.05 s clock.
RefractoryBursts == QUEUE_MAXSIZE + 4

NextRefractory ==
    \/ /\ Len(queue) < QUEUE_MAXSIZE
       /\ now - last_accept_ts < cooldown_s
       /\ Tick(cooldown_s, cooldown_s * (RefractoryBursts + 1))
    \/ /\ Len(queue) < QUEUE_MAXSIZE
       /\ now - last_accept_ts >= cooldown_s
       /\ DatagramReceived(BCentre, RefractoryBursts)
    \/ /\ Len(queue) = QUEUE_MAXSIZE
       /\ Tick(1, cooldown_s * (RefractoryBursts + 1))
    \/ /\ Len(queue) = QUEUE_MAXSIZE
       /\ DatagramReceived(BCentre, RefractoryBursts)

SpecRefractory == Init /\ [][NextRefractory]_vars

\* the last HIT that passed the cooldown check is not in the queue: it was
\* dropped by put_nowait (the dispatcher of these runs takes nothing)
LastAcceptDropped ==
    /\ accepted # <<>>
    /\ \A i \in DOMAIN queue : queue[i].seq # accepted[Len(accepted)].seq

\* C36: a HIT that passes the cooldown check and finds the queue full is
\* dropped and still stamps the cooldown timestamp, and every HIT that arrives
\* less than the cooldown after such a dropped HIT is dropped by the cooldown
\* check
C36_FullQueueDropStartsCooldown ==
    [][(next_seq' # next_seq /\ last_rx'.hit) =>
          /\ last_rx'.outcome = "queue_full"
                => /\ queue' = queue
                   /\ last_accept_ts' = now
          /\ (LastAcceptDropped /\ now - accepted[Len(accepted)].ts < cooldown_s)
                => /\ last_rx'.outcome = "cooldown"
                   /\ queue' = queue
                   /\ last_accept_ts' = last_accept_ts]_vars

\* a HIT was dropped by the cooldown check 0.30 s after the HIT that found the
\* queue full
C36_Witness ==
    /\ Len(queue) = QUEUE_MAXSIZE
    /\ LastAcceptDropped
    /\ last_rx.hit
    /\ last_rx.outcome = "cooldown"
    /\ last_rx.dt = cooldown_s - 1
    /\ last_accept_ts = accepted[Len(accepted)].ts

\* ---------------------------------------------------------------------- C37
\* a step in which datagram_received handled a datagram
DatagramStep == next_seq' # next_seq

\* the outcomes of a HIT that passed the mode check and the cooldown check
Passed == {"queued", "queue_full"}

\* C37: the cooldown timestamp changes only when a HIT passes the mode check
\* and the cooldown check, and is then the arrival time; a GHOST, a burst
\* dropped by the mode check or by the cooldown check, and a datagram that is
\* no bundle leave it unchanged; a HIT that arrives at least the cooldown
\* after the last accepted one is accepted
C37_OnlyAcceptedHitsStamp ==
    [][/\ last_accept_ts' # last_accept_ts
            => /\ DatagramStep
               /\ last_rx'.hit
               /\ last_rx'.outcome \in Passed
               /\ last_rx'.dt >= cooldown_s
       /\ (DatagramStep /\ last_rx'.outcome \in Passed)
            => last_accept_ts' = now
       /\ (DatagramStep /\ last_rx'.outcome \notin Passed)
            => /\ last_accept_ts' = last_accept_ts
               /\ accepted' = accepted
       /\ (DatagramStep /\ last_rx'.hit /\ now - last_accept_ts >= cooldown_s)
            => /\ last_rx'.outcome \in Passed
               /\ Len(accepted') = Len(accepted) + 1
               /\ accepted'[Len(accepted')].seq = last_rx'.seq]_vars

\* a HIT that arrived 0.30 s after the last accepted HIT was dropped and the
\* timestamp is still the arrival time of the accepted one
C37_Witness ==
    /\ last_rx.hit
    /\ last_rx.outcome = "cooldown"
    /\ last_rx.dt = cooldown_s - 1
    /\ Len(accepted) = 1
    /\ last_accept_ts = accepted[1].ts
    /\ now = last_accept_ts + cooldown_s - 1
    /\ Len(queue) < QUEUE_MAXSIZE

\* ---------------------------------------------------------------------- C38
\* cal_confirm on a worker thread, step by step: the interpreter may switch
\* threads, and the event loop may run, between any two of its statements.
\* The requests of a run are bounded as in cal_confirm.
ConfirmsInFlight ==
    Cardinality({u \in ApplyThreads :
                    apply[u].pc \in {"confirm_read", "confirm_append", "confirm_clear"}})

\* lines 567-570: the tests of calibration["active"] and calibration["pending"]
confirm_check(t, payload) ==
    /\ apply[t].pc = "idle"
    /\ Len(calibration.samples) + ConfirmsInFlight < MaxSamples
    /\ calibration_fit_version + ConfirmsInFlight < MaxFitVersion
    /\ IF ~calibration.active
       THEN /\ cal_response' = [op |-> "confirm", ok |-> FALSE, error |-> "not active"]
            /\ UNCHANGED apply
       ELSE IF calibration.pending = NoPending
       THEN /\ cal_response' = [op |-> "confirm", ok |-> FALSE,
                                error |-> "no pending shot"]
            /\ UNCHANGED apply
       ELSE /\ apply' = [apply EXCEPT ![t] = [pc |-> "confirm_read", payload |-> payload]]
            /\ UNCHANGED cal_response
    /\ UNCHANGED <<probe, now, next_seq, ingestVars, queue, mode, RINGS_CM, calibration,
                   calibration_fit, calibration_fit_version, fit_file, clients, sock,
                   state, sessVars, disp, recorded>>

\* lines 573-574: pending = calibration["pending"]; sample = {**pending, ...},
\* which raises TypeError when the pending burst has been cleared meanwhile
confirm_read(t) ==
    /\ apply[t].pc = "confirm_read"
    /\ IF calibration.pending = NoPending
       THEN /\ apply' = [apply EXCEPT ![t] = ApplyIdle]
            /\ cal_response' = [op |-> "confirm", ok |-> FALSE, error |-> "TypeError"]
       ELSE /\ apply' = [apply EXCEPT ![t] =
                           [pc |-> "confirm_append",
                            sample |-> SampleOf(calibration.pending, apply[t].payload)]]
            /\ UNCHANGED cal_response
    /\ UNCHANGED <<probe, now, next_seq, ingestVars, queue, mode, RINGS_CM, calibration,
                   calibration_fit, calibration_fit_version, fit_file, clients, sock,
                   state, sessVars, disp, recorded>>

\* line 575: calibration["samples"].append(sample)
confirm_append(t) ==
    /\ apply[t].pc = "confirm_append"
    /\ calibration' = [calibration EXCEPT !.samples = Append(@, apply[t].sample)]
    /\ apply' = [apply EXCEPT ![t] = [pc |-> "confirm_clear"]]
    /\ UNCHANGED <<probe, now, next_seq, ingestVars, queue, mode, RINGS_CM,
                   calibration_fit, calibration_fit_version, fit_file, cal_response,
                   clients, sock, state, sessVars, disp, recorded>>

\* lines 576-605: calibration["pending"] = None, the count, the automatic
\* fit and the response
confirm_clear(t) ==
    /\ apply[t].pc = "confirm_clear"
    /\ SameRows(calibration.samples)
    /\ ConfirmFit([calibration EXCEPT !.pending = NoPending],
                  Len(calibration.samples),
                  compute_fit_internal(calibration.samples))
    /\ apply' = [apply EXCEPT ![t] = ApplyIdle]
    /\ UNCHANGED <<probe, now, next_seq, ingestVars, queue, mode, RINGS_CM, fit_file,
                   clients, sock, state, sessVars, disp, recorded>>

\* a calibration in which confirm requests overlap: the operator's confirm
\* arrives twice (a double click, a retry), each on its own worker thread,
\* while the dispatcher captures the bursts
NextConfirm ==
    \/ /\ now - last_accept_ts < cooldown_s
       /\ Tick(cooldown_s, MaxTime)
    \/ /\ ShotDue
       /\ DatagramReceived(BMiss, MaxBursts)
    \/ DispatchGet
    \/ DispatchCalPaused
    \/ DispatchCalPending
    \/ /\ ~calibration.active
       /\ cal_start
    \/ \E t \in ApplyThreads : \E payload \in CalTruths : confirm_check(t, payload)
    \/ \E t \in ApplyThreads : confirm_read(t)
    \/ \E t \in ApplyThreads : confirm_append(t)
    \/ \E t \in ApplyThreads : confirm_clear(t)

SpecConfirm == Init /\ [][NextConfirm]_vars

\* C38: each pending burst becomes at most one calibration sample: no two
\* samples of a calibration come from the same burst
C38_PendingConfirmedOnce ==
    \A i, j \in DOMAIN calibration.samples :
        i # j => calibration.samples[i].seq # calibration.samples[j].seq

\* ---------------------------------------------------------------------- C39
\* the position on the scoreboard of the shot made from the burst seq
ShotIndex(seq) == CHOOSE k \in DOMAIN recorded : recorded[k] = seq

\* C39: a subscriber never receives a shot event for a shot that the state
\* snapshot sent to it on connect already contained: every shot event in its
\* inbox is for a shot added to the scoreboard after the snapshot was taken
C39_NoShotEventForSnapshotShot ==
    \A w \in WS : \A i \in DOMAIN sock[w].inbox :
        IsShot(sock[w].inbox[i]) =>
            ShotIndex(sock[w].inbox[i].seq) > sock[w].inbox[1].table.total_arrows

\* ---------------------------------------------------------------------- C40
\* SessionState.add_shot as a function: scoreboards of every shape up to
\* MaxApeProbe arrows per end and MaxEndsProbe ends, each shot at until two
\* arrows past its capacity
MaxApeProbe == 3

MaxEndsProbe == 5

\* the k-th arrow shot at a scoreboard
ProbeShot(k) == [ts |-> k, x |-> 0, y |-> 0, r |-> 0, score |-> 10, is_x |-> FALSE]

InitBoard ==
    /\ InitProgram
    /\ probe \in {[fn |-> "add_shot", calls |-> 0, st |-> NewSessionState(0, ape, n)] :
                  ape \in 1..MaxApeProbe, n \in 1..MaxEndsProbe}

\* one call st.add_shot(shot)
ApplyAddShot ==
    /\ probe.fn = "add_shot"
    /\ probe.calls < probe.st.arrows_per_end * probe.st.num_ends + 2
    /\ probe' = [probe EXCEPT !.calls = @ + 1,
                              !.st = add_shot(@, ProbeShot(probe.calls + 1))]
    /\ UNCHANGED <<now, next_seq, ingestVars, queue, mode, RINGS_CM, calVars,
                   clients, sock, state, sessVars, disp, recorded>>

NextBoard == ApplyAddShot

SpecBoard == InitBoard /\ [][NextBoard]_vars

\* the last end of the scoreboard is full and the maximum number of ends is
\* reached
LastEndFull(st) ==
    /\ Len(st.ends) = st.num_ends
    /\ Len(st.ends[Len(st.ends)]) >= st.arrows_per_end

\* C40: after every add_shot there are at most num_ends ends, every end
\* holds between 1 and arrows_per_end shots, and the shot total is at most
\* arrows_per_end * num_ends; a shot added when the last end is full at the
\* maximum number of ends discards the shots of that end and starts it again
C40_BoardStaysWithinShape ==
    [][/\ Len(probe'.st.ends) <= probe.st.num_ends
       /\ \A i \in DOMAIN probe'.st.ends :
             /\ Len(probe'.st.ends[i]) >= 1
             /\ Len(probe'.st.ends[i]) <= probe.st.arrows_per_end
       /\ get_total_arrows(probe'.st.ends)
             <= probe.st.arrows_per_end * probe.st.num_ends
       /\ LastEndFull(probe.st)
             => probe'.st.ends =
                   [probe.st.ends EXCEPT ![probe.st.num_ends] =
                       <<ProbeShot(probe.calls + 1)>>]]_vars

\* the arrow after the last of a 3 x 4 scoreboard replaced the three shots
\* of the fourth end
C40_Witness ==
    /\ probe.fn = "add_shot"
    /\ probe.st.arrows_per_end = 3
    /\ probe.st.num_ends = 4
    /\ probe.calls = 13
    /\ Len(probe.st.ends) = 4
    /\ probe.st.ends[4] = <<ProbeShot(13)>>
    /\ get_total_arrows(probe.st.ends) = 10

============================================================================
